---- MODULE Spec2Model ----
(***************************************************************************)
(* TinyClaw queue processor: the file queue (incoming, processing,         *)
(* outgoing, dead-letter), the per-agent promise chains of processQueue,   *)
(* processMessage with its retry / dead-letter catch block, start-up       *)
(* recovery, and the sandbox concurrency permit of invokeAgent.            *)
(***************************************************************************)
EXTENDS Integers, Sequences, FiniteSets, TLC

\* ------------------------------------------------------------------ bounds
MaxMsgs == 2          \* message files channel clients create
MaxRestarts == 1      \* process exits followed by a restart
MaxInvocations == 3   \* container invocations requesting the permit
MaxTags == 4          \* [send_file: ...] tags in one response
MaxChainSteps == 3    \* sequential steps of one team chain
MaxTouches == 1       \* reset flags created while a message is processed
MaxLines == 3         \* lines of one codex output
MaxQueued == 2        \* messages in the queue at the same time

\* ------------------------------------------------------- program constants
DefaultMaxAttempts == 3   \* DEFAULT_SANDBOX.max_attempts
MaxResponseLength == 4000 \* processMessage: finalResponse.length > 4000
TruncateTo == 3900        \* processMessage: substring(0, 3900)
MarkerLength == 25        \* '\n\n[Response truncated...]'.length
WarningHeaderLength == 55 \* '[Warning: Some files could not be found for attachment]'.length
MaxShownMissing == 3      \* parsedFiles.missing.slice(0, 3)
EventMessageLength == 240 \* err.message.slice(0, 240)

Names == 1..MaxMsgs
NoFile == [parsed |-> FALSE, agent |-> "-", mention |-> "-", attempt |-> 0 - 1]

\* settings.agents as Object.keys() lists it (insertion order)
AgentConfigs == {<<"default", "coder">>, <<"coder", "writer">>}
\* configured sandbox.max_attempts; 0 stands for an absent key
ConfiguredMaxAttempts == {0, 2}

\* What a channel client may put into incoming: a plain text, a text with a
\* leading @coder, a text with several @ targets, a message pre-routed to
\* writer, and a file that is no valid JSON.
ClientMessages ==
    { [parsed |-> TRUE,  agent |-> "",       mention |-> "",      attempt |-> 0],
      [parsed |-> TRUE,  agent |-> "",       mention |-> "coder", attempt |-> 0],
      [parsed |-> TRUE,  agent |-> "",       mention |-> "multi", attempt |-> 0],
      [parsed |-> TRUE,  agent |-> "writer", mention |-> "",      attempt |-> 0],
      [parsed |-> FALSE, agent |-> "",       mention |-> "",      attempt |-> 0] }

ChainKeys == {"default", "coder", "writer", "error"}

VARIABLES
    agents,          \* getAgents(getSettings()), in key order
    cfgMaxAttempts,  \* settings.sandbox.max_attempts (0: absent)
    incoming,        \* queue/incoming:   name -> message file or NoFile
    processing,      \* queue/processing: name -> message file or NoFile
    mtimeOrder,      \* the message files in ascending mtime order
    outgoing,        \* queue/outgoing:    file name -> response file
    deadLetter,      \* queue/dead-letter: file name -> dead-letter file
    created,         \* how many message files clients have created
    up,              \* the processor process is running
    restarts,        \* how often it exited
    queuedFiles,     \* the Set queuedFiles
    chains,          \* agentProcessingChains: key -> files whose processMessage is pending
    pm,              \* where processMessage(file) stands
    invocations,     \* how often invokeAgent was called for the file
    lastOutcome,     \* how the file's latest invocation settled
    granular,        \* file writes are observed open / flush (else whole)
    wq,              \* writes of the running synchronous block still to flush
    sandboxActive,   \* invoke.ts: sandboxActive
    sandboxWaiters,  \* invoke.ts: sandboxWaiters
    limit,           \* sandbox.max_concurrency
    ipc,             \* where each invocation stands in withSandboxPermit
    imode,           \* sandbox mode of each invocation
    resumeQueue,     \* the woken waiters' continuations, in microtask order
    requested,       \* the container invocations in the order of their requests
    sreq,            \* runner.ts: the request and environment of a runInSandbox call
    spc,             \* where that call stands
    sexec,           \* what it spawned: nothing, the provider CLI, the runtime
    sexit,           \* how the spawned process ended
    sstderr,         \* what it wrote to stderr
    sresult,         \* how the call settled
    rin,             \* the aggregated response: its text length and its send_file tags
    rmap,            \* allPathMappings
    hostFiles,       \* the paths that exist on the host
    rpc,             \* where the response stands between aggregation and outgoing
    parsedFiles,     \* parseOutboundFiles(...): cleanText, files, missing
    finalResponse,   \* the message: its length and what it holds
    script,          \* what each agent of the team answers
    tfirst,          \* the agent the message is routed to
    tpc,             \* where processMessage stands in the team chain
    tattempt,        \* messageData.attempt of the message file
    chainSteps,      \* chainSteps
    currentAgentId,  \* currentAgentId
    currentMessage,  \* currentMessage
    fan,             \* the sibling invocations of a fan-out, in mention order
    settledOrder,    \* the siblings in the order in which they returned
    calls,           \* the invokeAgent calls of this run of processMessage
    started,         \* sandbox_invocation_start events of the message
    settled,         \* sandbox_invocation_end and _error events of the message
    failures,        \* invocations of the message that failed
    stray,           \* invocations still running whose run has ended
    tfinal,          \* finalResponse after aggregation
    ekeys,           \* the value of the API key in each of two runs
    etemplate,       \* the stderr of the failing provider process
    eclass,          \* the classification of the error thrown
    epc,             \* where the failing message stands
    eattempt,        \* messageData.attempt of the message file
    eevents,         \* the message of each sandbox_invocation_error event
    elog,            \* the error texts in the log
    edead,           \* the errorMessage of each dead-letter record
    eresp,           \* the message of each error response in outgoing
    resetFlags,      \* the reset flag files that exist
    fpc,             \* where processMessage stands between its invocations
    ffirst,          \* the agent the message is routed to
    fcurrent,        \* currentAgentId
    finv,            \* the invokeAgent calls with their shouldReset argument
    ftouched,        \* how many flags were created meanwhile
    ffailed,         \* the agents whose invocation with reset has failed
    fattempt,        \* messageData.attempt of the message file
    teams,           \* getTeams(getSettings()), in key order
    rawMessage,      \* messageData.message: its leading @-token
    cpc,             \* where processMessage stands before the chain
    routing,         \* parseAgentRouting(rawMessage, agents, teams)
    teamContext,     \* teamContext: the team id, or "" for null
    codexOutput,     \* the stdout of `codex exec --json`, line by line
    xpc,             \* where parseCodexResponse stands
    codexResponse,   \* what parseCodexResponse returned or threw
    mscript,         \* what each agent answers
    mfirst,          \* the agent each message is routed to
    mpc,             \* where processMessage stands for each message
    mcurrent,        \* currentAgentId of each message
    mfan             \* the running fan-out siblings of each message

qvars == <<agents, cfgMaxAttempts, incoming, processing, mtimeOrder, outgoing,
           deadLetter, created, up, restarts, queuedFiles, chains, pm,
           invocations, lastOutcome, granular, wq>>
pvars == <<sandboxActive, sandboxWaiters, limit, ipc, imode, resumeQueue,
           requested>>
svars == <<sreq, spc, sexec, sexit, sstderr, sresult>>
rvars == <<rin, rmap, hostFiles, rpc, parsedFiles, finalResponse>>
tvars == <<script, tfirst, tpc, tattempt, chainSteps, currentAgentId,
           currentMessage, fan, settledOrder, calls, started, settled,
           failures, stray, tfinal>>
evars == <<ekeys, etemplate, eclass, epc, eattempt, eevents, elog, edead, eresp>>
fvars == <<resetFlags, fpc, ffirst, fcurrent, finv, ftouched, ffailed, fattempt>>
cvars == <<teams, rawMessage, cpc, routing, teamContext>>
xvars == <<codexOutput, xpc, codexResponse>>
mvars == <<mscript, mfirst, mpc, mcurrent, mfan>>
nvars == <<cvars, xvars, mvars>>
ovars == <<svars, rvars, tvars, evars, fvars, nvars>>
vars == <<agents, cfgMaxAttempts, incoming, processing, mtimeOrder, outgoing,
          deadLetter, created, up, restarts, queuedFiles, chains, pm,
          invocations, lastOutcome, granular, wq,
          sandboxActive, sandboxWaiters, limit, ipc, imode, resumeQueue,
          requested,
          sreq, spc, sexec, sexit, sstderr, sresult,
          rin, rmap, hostFiles, rpc, parsedFiles, finalResponse,
          script, tfirst, tpc, tattempt, chainSteps, currentAgentId,
          currentMessage, fan, settledOrder, calls, started, settled,
          failures, stray, tfinal,
          ekeys, etemplate, eclass, epc, eattempt, eevents, elog, edead, eresp,
          resetFlags, fpc, ffirst, fcurrent, finv, ftouched, ffailed, fattempt,
          teams, rawMessage, cpc, routing, teamContext,
          codexOutput, xpc, codexResponse,
          mscript, mfirst, mpc, mcurrent, mfan>>

\* ----------------------------------------------------------------- helpers
Range(s) == {s[i] : i \in 1..Len(s)}

Remove(s, x) == SelectSeq(s, LAMBDA y : y # x)

\* getSandboxConfig(settings).max_attempts: configured.max_attempts || default
getSandboxConfig(configured) ==
    IF configured # 0 THEN configured ELSE DefaultMaxAttempts

\* routing.ts parseAgentRouting(...).agentId
parseAgentRouting(mention, ags) ==
    IF mention = "multi" THEN "error"
    ELSE IF mention # "" /\ mention \in Range(ags) THEN mention
    ELSE "default"

\* peekAgentId(filePath): the chain key of a file in incoming
peekAgentId(msg, ags) ==
    IF ~msg.parsed THEN "default"
    ELSE IF msg.agent # "" /\ msg.agent \in Range(ags) THEN msg.agent
    ELSE parseAgentRouting(msg.mention, ags)

\* A routing that treats the sentinel as one more unknown agent id.
RouteAgentNoSentinel(msg, ags) ==
    LET first == IF msg.agent # "" /\ msg.agent \in Range(ags)
                 THEN msg.agent
                 ELSE parseAgentRouting(msg.mention, ags)
    IN  IF first \in Range(ags) THEN first
        ELSE IF "default" \in Range(ags) THEN "default"
        ELSE ags[1]

\* processMessage, routing: pre-route or parse, then the two fallbacks
RouteAgent(msg, ags) ==
    LET first == IF msg.agent # "" /\ msg.agent \in Range(ags)
                 THEN msg.agent
                 ELSE parseAgentRouting(msg.mention, ags)
    IN  IF first = "error" THEN "error"
        ELSE IF first \in Range(ags) THEN first
        ELSE IF "default" \in Range(ags) THEN "default"
        ELSE ags[1]

Idle == wq = <<>>

\* fs.writeFileSync(file, data): the file exists under its name from the open
\* on; `partial` tells whether its data is still missing.
WriteFile(dir, key, rec, partial) ==
    (key :> [rec EXCEPT !.partial = partial]) @@ dir

\* Writes that leave no file.
WrittenNowhere(dir, name, ws) == dir

\* The files a list of writes leaves in one directory, all flushed.
Written(dir, name, ws) ==
    LET mine == SelectSeq(ws, LAMBDA w : w.dir = name)
        RECURSIVE put(_, _)
        put(d, s) == IF s = <<>> THEN d
                     ELSE put(WriteFile(d, Head(s).key, Head(s).rec, FALSE), Tail(s))
    IN  put(dir, mine)

\* writeOutgoingResponse and writeDeadLetter name their file after the message
\* and Date.now().  The clock is left out of the name: two writes for one
\* message are taken to fall into the same millisecond and to hit one file,
\* which is the worst case for a file being overwritten.
\* writeOutgoingResponse: <channel>_<messageId>_<Date.now()>.json
writeOutgoingResponse(f, text, agentId) ==
    [dir |-> "outgoing", key |-> f,
     rec |-> [msg |-> f, text |-> text, agent |-> agentId, partial |-> FALSE]]

\* A dead-letter record that stores the attempt counter of the file rather than
\* the number of the attempt that failed.
writeDeadLetterStale(f, hasPayload, errorClass, attempt, maxAttempts) ==
    [dir |-> "dead-letter", key |-> f,
     rec |-> [base |-> f, errorClass |-> errorClass, attempt |-> attempt - 1,
              maxAttempts |-> maxAttempts, payload |-> hasPayload,
              partial |-> FALSE]]

\* writeDeadLetter: <basename>_<Date.now()>.json
writeDeadLetter(f, hasPayload, errorClass, attempt, maxAttempts) ==
    [dir |-> "dead-letter", key |-> f,
     rec |-> [base |-> f, errorClass |-> errorClass, attempt |-> attempt,
              maxAttempts |-> maxAttempts, payload |-> hasPayload,
              partial |-> FALSE]]

\* newChain.finally: queuedFiles.delete(file.name); the chain moves on, and an
\* agent's map entry goes when its last promise has settled.
ChainsWithout(f) == [k \in ChainKeys |-> Remove(chains[k], f)]

\* A finally callback that forgets queuedFiles.delete.
SettleKeepsQueued(f) ==
    /\ queuedFiles' = queuedFiles
    /\ chains' = ChainsWithout(f)
    /\ pm' = [pm EXCEPT ![f] = "idle"]

Settle(f) ==
    /\ queuedFiles' = queuedFiles \ {f}
    /\ chains' = ChainsWithout(f)
    /\ pm' = [pm EXCEPT ![f] = "idle"]

\* The end of processMessage(f) on the paths that write files: the writes ws,
\* then the processing file is unlinked and the promise settles.  inc and proc
\* are incoming and processing as the renames before the writes left them.
Conclude(f, inc, proc, ws) ==
    IF granular /\ ws # <<>>
    THEN /\ incoming' = inc
         /\ processing' = proc
         /\ outgoing' = IF Head(ws).dir = "outgoing"
                        THEN WriteFile(outgoing, Head(ws).key, Head(ws).rec, TRUE)
                        ELSE outgoing
         /\ deadLetter' = IF Head(ws).dir = "dead-letter"
                          THEN WriteFile(deadLetter, Head(ws).key, Head(ws).rec, TRUE)
                          ELSE deadLetter
         /\ wq' = ws
         /\ pm' = [pm EXCEPT ![f] = "writing"]
         /\ UNCHANGED <<mtimeOrder, queuedFiles, chains>>
    ELSE /\ incoming' = inc
         /\ processing' = [proc EXCEPT ![f] = NoFile]
         /\ mtimeOrder' = IF inc[f] = NoFile THEN Remove(mtimeOrder, f) ELSE mtimeOrder
         /\ outgoing' = Written(outgoing, "outgoing", ws)
         /\ deadLetter' = Written(deadLetter, "dead-letter", ws)
         /\ wq' = <<>>
         /\ Settle(f)

\* A processQueue that forgets the queuedFiles check.
AlreadyQueuedNever(f, q) == FALSE

\* processQueue, line 622: skip files already queued in a promise chain
AlreadyQueued(f, q) == f \in q

\* processQueue, the loop over the files of incoming in mtime order
RECURSIVE EnqueueFiles(_, _, _)
EnqueueFiles(files, q, ch) ==
    IF files = <<>> THEN [queued |-> q, chains |-> ch]
    ELSE LET f == Head(files)
             k == peekAgentId(incoming[f], agents)
         IN  IF AlreadyQueued(f, q)
             THEN EnqueueFiles(Tail(files), q, ch)
             ELSE EnqueueFiles(Tail(files), q \cup {f},
                               [ch EXCEPT ![k] = Append(@, f)])

\* A start-up that leaves processing as it finds it.
recoverNothing(inc, proc) == [incoming |-> inc, processing |-> proc]

\* recoverOrphanedFiles: rename every processing/f to incoming/f
recoverOrphanedFiles(inc, proc) ==
    [incoming |-> [f \in Names |-> IF proc[f] # NoFile THEN proc[f] ELSE inc[f]],
     processing |-> [f \in Names |-> NoFile]]

\* A catch block that requeues terminal failures too.
ShouldRetryTerminal(terminal, attempt, maxAttempts, hasData, fileExists) ==
    ~(attempt >= maxAttempts) /\ hasData /\ fileExists

\* A catch block whose limit is off by one.
ShouldRetryOffByOne(terminal, attempt, maxAttempts, hasData, fileExists) ==
    ~terminal /\ ~(attempt > maxAttempts) /\ hasData /\ fileExists

\* A catch block that never gives up.
ShouldRetryForever(terminal, attempt, maxAttempts, hasData, fileExists) ==
    ~terminal /\ hasData /\ fileExists

\* processMessage catch, line 517: retry transient errors up to max attempts
ShouldRetry(terminal, attempt, maxAttempts, hasData, fileExists) ==
    ~terminal /\ ~(attempt >= maxAttempts) /\ hasData /\ fileExists

\* processMessage catch, line 512: (messageData?.attempt || 0) + 1
NextAttempt(hasData, stored) == (IF hasData THEN stored ELSE 0) + 1

\* ----------------------------------------------------------------- actions

\* A channel client creates a message file in incoming.
ClientEnqueue ==
    /\ created < MaxMsgs
    /\ \E m \in ClientMessages :
         /\ incoming' = [incoming EXCEPT ![created + 1] = m]
         /\ mtimeOrder' = Append(mtimeOrder, created + 1)
    /\ created' = created + 1
    /\ UNCHANGED <<agents, cfgMaxAttempts, processing, outgoing, deadLetter, up,
                   restarts, queuedFiles, chains, pm, invocations, lastOutcome,
                   granular, wq>>
    /\ UNCHANGED pvars
    /\ UNCHANGED ovars

\* The process starts: recoverOrphanedFiles(), then setInterval(processQueue).
Startup ==
    /\ ~up
    /\ LET r == recoverOrphanedFiles(incoming, processing)
       IN  /\ incoming' = r.incoming
           /\ processing' = r.processing
    /\ up' = TRUE
    /\ UNCHANGED <<agents, cfgMaxAttempts, mtimeOrder, outgoing, deadLetter,
                   created, restarts, queuedFiles, chains, pm, invocations,
                   lastOutcome, granular, wq>>
    /\ UNCHANGED pvars
    /\ UNCHANGED ovars

\* SIGINT / SIGTERM (process.exit) or a crash between two callbacks: the
\* in-memory state is gone, the directories stay as they are.
Crash ==
    /\ up /\ Idle
    /\ restarts < MaxRestarts
    /\ up' = FALSE
    /\ restarts' = restarts + 1
    /\ queuedFiles' = {}
    /\ chains' = [k \in ChainKeys |-> <<>>]
    /\ pm' = [f \in Names |-> "idle"]
    /\ UNCHANGED <<agents, cfgMaxAttempts, incoming, processing, mtimeOrder,
                   outgoing, deadLetter, created, invocations, lastOutcome,
                   granular, wq>>
    /\ UNCHANGED pvars
    /\ UNCHANGED ovars

\* One poll tick of processQueue.
ProcessQueue ==
    /\ up /\ Idle
    /\ LET files == SelectSeq(mtimeOrder, LAMBDA f : incoming[f] # NoFile)
           e == EnqueueFiles(files, queuedFiles, chains)
       IN  /\ queuedFiles' = e.queued
           /\ chains' = e.chains
           /\ pm' = [f \in Names |->
                       IF f \in e.queued \ queuedFiles THEN "queued" ELSE pm[f]]
    /\ UNCHANGED <<agents, cfgMaxAttempts, incoming, processing, mtimeOrder,
                   outgoing, deadLetter, created, up, restarts, invocations,
                   lastOutcome, granular, wq>>
    /\ UNCHANGED pvars
    /\ UNCHANGED ovars

\* processMessage(f) from its start to `await invokeAgent(...)`, or to its end
\* when it ends before any invocation.  The callbacks of different chains are
\* scheduled in any order.
StartMessage(f) ==
    /\ up /\ Idle
    /\ pm[f] = "queued"
    /\ \E k \in ChainKeys : chains[k] # <<>> /\ Head(chains[k]) = f
    /\ LET msg == incoming[f]
           renamed == msg # NoFile
           inc == [incoming EXCEPT ![f] = NoFile]
           proc == IF renamed THEN [processing EXCEPT ![f] = msg] ELSE processing
           maxAttempts == getSandboxConfig(cfgMaxAttempts)
           agentId == RouteAgent(msg, agents)
       IN  IF ~renamed \/ ~msg.parsed
           THEN \* renameSync or JSON.parse throws: messageData is null
                /\ Conclude(f, inc, proc,
                     <<writeDeadLetter(f, FALSE, "transient",
                                       NextAttempt(FALSE, 0), maxAttempts)>>)
                /\ UNCHANGED <<invocations, lastOutcome>>
           ELSE IF agentId = "error"
           THEN \* several agents mentioned: the easter egg answer
                /\ Conclude(f, inc, proc, <<writeOutgoingResponse(f, "easter", "")>>)
                /\ UNCHANGED <<invocations, lastOutcome>>
           ELSE /\ incoming' = inc
                /\ processing' = proc
                /\ pm' = [pm EXCEPT ![f] = "invoking"]
                /\ invocations' = [invocations EXCEPT ![f] = @ + 1]
                /\ UNCHANGED lastOutcome
                /\ UNCHANGED <<mtimeOrder, outgoing, deadLetter, queuedFiles,
                               chains, wq>>
    /\ UNCHANGED <<agents, cfgMaxAttempts, created, up, restarts, granular>>
    /\ UNCHANGED pvars
    /\ UNCHANGED ovars

\* invokeAgent settles and processMessage(f) runs to its end: the response is
\* written, or the catch block requeues or dead-letters the message.
CompleteInvocation(f, outcome) ==
    /\ up /\ Idle
    /\ pm[f] = "invoking"
    /\ LET msg == processing[f]
           maxAttempts == getSandboxConfig(cfgMaxAttempts)
           attempt == NextAttempt(TRUE, msg.attempt)
           terminal == outcome = "terminal"
       IN  IF outcome = "ok"
           THEN Conclude(f, incoming, processing,
                         <<writeOutgoingResponse(f, "response", RouteAgent(msg, agents))>>)
           ELSE IF ShouldRetry(terminal, attempt, maxAttempts, TRUE, msg # NoFile)
           THEN /\ incoming' = [incoming EXCEPT ![f] = [msg EXCEPT !.attempt = attempt]]
                /\ processing' = [processing EXCEPT ![f] = NoFile]
                /\ mtimeOrder' = Append(Remove(mtimeOrder, f), f)
                /\ Settle(f)
                /\ UNCHANGED <<outgoing, deadLetter, wq>>
           ELSE Conclude(f, incoming, processing,
                  <<writeDeadLetter(f, TRUE,
                                    IF terminal THEN "terminal" ELSE "transient",
                                    attempt, maxAttempts),
                    writeOutgoingResponse(f, "userMessage", RouteAgent(msg, agents))>>)
    /\ lastOutcome' = [lastOutcome EXCEPT ![f] = outcome]
    /\ UNCHANGED <<agents, cfgMaxAttempts, created, up, restarts,
                   invocations, granular>>
    /\ UNCHANGED pvars
    /\ UNCHANGED ovars

\* The write that is open is flushed; the next write of the block is opened,
\* or the block ends: the processing file is unlinked, the promise settles.
FsFlush ==
    /\ wq # <<>>
    /\ LET w == Head(wq)
           f == CHOOSE g \in Names : pm[g] = "writing"
           out1 == IF w.dir = "outgoing"
                   THEN WriteFile(outgoing, w.key, w.rec, FALSE) ELSE outgoing
           dl1 == IF w.dir = "dead-letter"
                  THEN WriteFile(deadLetter, w.key, w.rec, FALSE) ELSE deadLetter
       IN  IF Len(wq) > 1
           THEN LET n == wq[2]
                IN  /\ outgoing' = IF n.dir = "outgoing"
                                   THEN WriteFile(out1, n.key, n.rec, TRUE) ELSE out1
                    /\ deadLetter' = IF n.dir = "dead-letter"
                                     THEN WriteFile(dl1, n.key, n.rec, TRUE) ELSE dl1
                    /\ wq' = Tail(wq)
                    /\ UNCHANGED <<processing, mtimeOrder, queuedFiles, chains,
                                   pm>>
           ELSE /\ outgoing' = out1
                /\ deadLetter' = dl1
                /\ wq' = <<>>
                /\ processing' = [processing EXCEPT ![f] = NoFile]
                /\ mtimeOrder' = Remove(mtimeOrder, f)
                /\ Settle(f)
    /\ UNCHANGED <<agents, cfgMaxAttempts, incoming, created, up, restarts,
                   invocations, lastOutcome, granular>>
    /\ UNCHANGED pvars
    /\ UNCHANGED ovars

Outcomes == {"ok", "transient", "terminal"}

NextQueue ==
    \/ ClientEnqueue
    \/ Startup
    \/ Crash
    \/ ProcessQueue
    \/ \E f \in Names : StartMessage(f)
    \/ \E f \in Names, o \in Outcomes : CompleteInvocation(f, o)


\* ------------------------------------------------- the concurrency permit

Invocations == 1..MaxInvocations
SandboxModes == {"host", "docker", "apple"}
\* settings.sandbox.max_concurrency
ConfiguredMaxConcurrency == {0, 1, 2}

\* invokeAgent, line 142: sandbox.mode === 'host' ? 0 : sandbox.max_concurrency
PermitLimit(mode, maxConcurrency) == IF mode = "host" THEN 0 ELSE maxConcurrency

\* An invocation that waits although no other holds a permit.
MustWaitAlways(active, lim) == TRUE

\* withSandboxPermit, line 23: the invocation has to wait
MustWait(active, lim) == active >= lim

\* A finally block that keeps the permit.
ReleasedNever(active) == active

\* withSandboxPermit, line 31: Math.max(0, sandboxActive - 1)
Released(active) == IF active - 1 > 0 THEN active - 1 ELSE 0

\* invokeAgent reaches withSandboxPermit(limit, fn): up to the first await.
Request(i, mode) ==
    /\ ipc[i] = "idle"
    /\ imode' = [imode EXCEPT ![i] = mode]
    /\ LET lim == PermitLimit(mode, limit)
       IN  IF lim <= 0
           THEN /\ ipc' = [ipc EXCEPT ![i] = "running"]
                /\ UNCHANGED <<sandboxActive, sandboxWaiters, requested>>
           ELSE IF MustWait(sandboxActive, lim)
           THEN /\ sandboxWaiters' = Append(sandboxWaiters, i)
                /\ ipc' = [ipc EXCEPT ![i] = "waiting"]
                /\ requested' = Append(requested, i)
                /\ UNCHANGED sandboxActive
           ELSE /\ sandboxActive' = sandboxActive + 1
                /\ ipc' = [ipc EXCEPT ![i] = "running"]
                /\ requested' = Append(requested, i)
                /\ UNCHANGED sandboxWaiters
    /\ UNCHANGED <<limit, resumeQueue>>
    /\ UNCHANGED qvars
    /\ UNCHANGED ovars

\* The continuation of a waiter whose promise next() has resolved: it is a
\* microtask of its own, run after the microtasks that were queued before it,
\* so the woken waiters continue in the order in which they were woken.
Resume(i) ==
    /\ ipc[i] = "woken"
    /\ resumeQueue # <<>> /\ Head(resumeQueue) = i
    /\ resumeQueue' = Tail(resumeQueue)
    /\ sandboxActive' = sandboxActive + 1
    /\ ipc' = [ipc EXCEPT ![i] = "running"]
    /\ UNCHANGED <<sandboxWaiters, limit, imode, requested>>
    /\ UNCHANGED qvars
    /\ UNCHANGED ovars

\* fn() settles (a result or a throw): the finally block of withSandboxPermit.
Release(i) ==
    /\ ipc[i] = "running"
    /\ IF PermitLimit(imode[i], limit) <= 0
       THEN /\ ipc' = [ipc EXCEPT ![i] = "done"]
            /\ UNCHANGED <<sandboxActive, sandboxWaiters, resumeQueue>>
       ELSE /\ sandboxActive' = Released(sandboxActive)
            /\ IF sandboxWaiters # <<>>
               THEN /\ ipc' = [ipc EXCEPT ![i] = "done",
                                          ![Head(sandboxWaiters)] = "woken"]
                    /\ sandboxWaiters' = Tail(sandboxWaiters)
                    /\ resumeQueue' = Append(resumeQueue, Head(sandboxWaiters))
               ELSE /\ ipc' = [ipc EXCEPT ![i] = "done"]
                    /\ UNCHANGED <<sandboxWaiters, resumeQueue>>
    /\ UNCHANGED <<limit, imode, requested>>
    /\ UNCHANGED qvars
    /\ UNCHANGED ovars

InitPermit ==
    /\ sandboxActive = 0
    /\ sandboxWaiters = <<>>
    /\ limit \in ConfiguredMaxConcurrency
    /\ ipc = [i \in Invocations |-> "idle"]
    /\ imode = [i \in Invocations |-> "host"]
    /\ resumeQueue = <<>>
    /\ requested = <<>>

NextPermit ==
    \/ \E i \in Invocations, m \in SandboxModes : Request(i, m)
    \/ \E i \in Invocations : Resume(i)
    \/ \E i \in Invocations : Release(i)

\* ------------------------------------------------------------ runInSandbox

\* settings.sandbox.mode and agent.sandbox_mode; "" stands for an absent key,
\* "podman" for a string that is none of the three modes (the value of the
\* settings file is cast to SandboxMode, not validated)
ConfiguredModes == SandboxModes \cup {"", "podman"}

Providers == {"anthropic", "openai"}
ApiKeys == {"ANTHROPIC_API_KEY", "OPENAI_API_KEY"}

InvocationRequests ==
    [agentMode : ConfiguredModes,    \* agent.sandbox_mode
     configuredMode : ConfiguredModes, \* settings.sandbox.mode
     network : {"default", "restricted", "none"},  \* sandbox.<runtime>.network
     provider : Providers,           \* agent.provider
     envAllowlist : SUBSET ApiKeys,  \* settings.sandbox.env_allowlist
     processEnv : SUBSET ApiKeys,    \* the API keys that process.env holds
     runtime : BOOLEAN]              \* the binary to spawn is installed

\* How a spawned process can end: spawn error ENOENT, any other spawn error,
\* exit code 0, the timeout kill, a non-zero exit code.
ProcessExits == {"enoent", "spawn_error", "exit0", "timeout", "nonzero"}

\* What the process wrote to stderr, as the list of its words.
StderrTexts ==
    { <<>>,
      <<"connection", "reset">>,
      <<"Permission", "denied">>,
      <<"docker:", "unknown", "flag">>,
      <<"flag", "unknown">>,
      <<"image", "NOT", "FOUND">>,
      <<"not", "yet", "found">>,
      <<"invalid", "reference", "format">>,
      <<"invalid", "format">> }

\* String.prototype.toLowerCase, word by word
ToLowerCase(word) ==
    CASE word = "Permission" -> "permission"
      [] word = "NOT" -> "not"
      [] word = "FOUND" -> "found"
      [] OTHER -> word

\* classifyContainerFailure, lines 137-143
TerminalSignatures ==
    { <<"unknown", "flag">>,
      <<"no", "such", "file", "or", "directory">>,
      <<"not", "found">>,
      <<"invalid", "argument">>,
      <<"for", "\"--mount\"", "flag">>,
      <<"invalid", "reference", "format">>,
      <<"permission", "denied">> }

\* String.prototype.includes on lists of words
Includes(text, part) ==
    \E at \in 0..(Len(text) - Len(part)) :
        \A k \in 1..Len(part) : text[at + k] = part[k]

\* A classifier that does not lower the case of stderr.
classifyCaseSensitive(stderr) ==
    IF \E sig \in TerminalSignatures : Includes(stderr, sig)
    THEN "terminal" ELSE "transient"

classifyContainerFailure(stderr) ==
    LET text == [k \in 1..Len(stderr) |-> ToLowerCase(stderr[k])]
    IN  IF \E sig \in TerminalSignatures : Includes(text, sig)
        THEN "terminal" ELSE "transient"

\* A configuration in which only the global mode counts.
EffectiveModeGlobalOnly(agentMode, configuredMode) ==
    IF configuredMode # "" THEN configuredMode ELSE "host"

\* getSandboxConfig: agent?.sandbox_mode || configured.mode || DEFAULT_SANDBOX.mode
EffectiveMode(agentMode, configuredMode) ==
    IF agentMode # "" THEN agentMode
    ELSE IF configuredMode # "" THEN configuredMode
    ELSE "host"

\* getSandboxConfig, lines 134-136: an absent or empty list is the default one
EnvAllowlist(configured) == IF configured = {} THEN ApiKeys ELSE configured

getRequiredEnv(provider) ==
    IF provider = "openai" THEN "OPENAI_API_KEY" ELSE "ANTHROPIC_API_KEY"

\* buildAllowedEnv: the allowlisted variables that process.env holds
buildAllowedEnv(base, allowlist) == base \cap allowlist

\* Pre-flight checks that do not look at process.env.
PreflightFailsKeyUnchecked(req) ==
    \/ req.network = "none"
    \/ getRequiredEnv(req.provider) \notin EnvAllowlist(req.envAllowlist)

\* runContainer, lines 242-267: the checks before anything is spawned
PreflightFails(req) ==
    \/ req.network = "none"
    \/ getRequiredEnv(req.provider) \notin EnvAllowlist(req.envAllowlist)
    \/ getRequiredEnv(req.provider) \notin
          buildAllowedEnv(req.processEnv, EnvAllowlist(req.envAllowlist))

\* runContainer, lines 311-352: the class of the error, or "ok"
ContainerResult(exit, stderr) ==
    CASE exit = "exit0" -> "ok"
      [] exit = "timeout" -> "transient"
      [] exit = "nonzero" -> classifyContainerFailure(stderr)
      [] exit = "enoent" -> "terminal"
      [] exit = "spawn_error" -> "terminal"

\* runHost, and invokeAgent's wrapping of errors that are no
\* SandboxInvocationError: every failure on the host is transient
HostResult(exit) == IF exit = "exit0" THEN "ok" ELSE "transient"

\* runInSandbox(request) up to its first await: runHost spawns the provider
\* CLI; for every other mode runContainer throws from its pre-flight checks or
\* spawns the runtime (docker for mode docker, the apple runtime otherwise).
RunInSandbox ==
    /\ spc = "ready"
    /\ LET mode == EffectiveMode(sreq.agentMode, sreq.configuredMode)
       IN  IF mode = "host"
           THEN /\ sexec' = "host"
                /\ spc' = "spawned"
                /\ UNCHANGED sresult
           ELSE IF PreflightFails(sreq)
           THEN /\ sresult' = "terminal"
                /\ spc' = "done"
                /\ UNCHANGED sexec
           ELSE /\ sexec' = "runtime"
                /\ spc' = "spawned"
                /\ UNCHANGED sresult
    /\ UNCHANGED <<sreq, sexit, sstderr>>
    /\ UNCHANGED <<qvars, pvars, rvars, tvars, evars, fvars, nvars>>

\* The spawned process ends and runInSandbox settles.
ProcessEnds(exit, stderr) ==
    /\ spc = "spawned"
    /\ exit = "enoent" <=> ~sreq.runtime
    /\ exit \in {"enoent", "spawn_error"} => stderr = <<>>
    /\ sexit' = exit
    /\ sstderr' = stderr
    /\ sresult' = IF sexec = "host" THEN HostResult(exit)
                  ELSE ContainerResult(exit, stderr)
    /\ spc' = "done"
    /\ UNCHANGED <<sreq, sexec>>
    /\ UNCHANGED <<qvars, pvars, rvars, tvars, evars, fvars, nvars>>

InitSandboxIdle ==
    /\ sreq = [agentMode |-> "", configuredMode |-> "", network |-> "default",
               provider |-> "anthropic", envAllowlist |-> {},
               processEnv |-> ApiKeys, runtime |-> TRUE]
    /\ spc = "idle"
    /\ sexec = "none"
    /\ sexit = "none"
    /\ sstderr = <<>>
    /\ sresult = "none"

InitSandbox ==
    /\ sreq \in InvocationRequests
    /\ spc = "ready"
    /\ sexec = "none"
    /\ sexit = "none"
    /\ sstderr = <<>>
    /\ sresult = "none"

NextSandbox ==
    \/ RunInSandbox
    \/ \E e \in ProcessExits, t \in StderrTexts : ProcessEnds(e, t)

\* ------------------------------------------- outbound files and length cap

\* Paths are strings, written as the sequence of their characters.  In
\* container mode "mapped" the working directory (/h here) is mounted as
\* /workspace (/w here); in mode "same-path" under its own name.
Paths ==
    { <<"/", "w", "/", "x">>,        \* inside the container mount
      <<"/", "w", "2", "/", "x">>,   \* a sibling whose name starts like the mount
      <<"/", "w">>,                  \* the mount itself
      <<"/", "h", "/", "x">>,        \* a host path
      <<"x">> }                      \* a relative path

\* What may exist on the host besides the working directory /h.
HostPathSets ==
    { s \cup {<<"/", "h">>} :
        s \in SUBSET { <<"/", "h", "/", "x">>, <<"/", "h", "/", "2", "/", "x">> } }

\* getContainerPathMappings for the working directory /h or /h/, and the
\* empty list of host mode.
PathMappingLists ==
    { <<>>,
      << [containerPrefix |-> <<"/", "w">>, hostPrefix |-> <<"/", "h">>] >>,
      << [containerPrefix |-> <<"/", "h", "/">>, hostPrefix |-> <<"/", "h", "/">>] >> }

\* Lengths of the response text without its tags, around the two limits.
TextLengths == {0, 3000, 3880, 3990, 4100}

RECURSIVE TagLists(_)
TagLists(n) ==
    IF n = 0 THEN {<<>>}
    ELSE TagLists(n - 1) \cup
         {Append(s, q) : s \in {u \in TagLists(n - 1) : Len(u) = n - 1}, q \in Paths}

NoPath == <<>>

\* path.isAbsolute
IsAbsolute(path) == path # <<>> /\ Head(path) = "/"

\* String.prototype.startsWith
StartsWith(s, prefix) ==
    Len(prefix) <= Len(s) /\ SubSeq(s, 1, Len(prefix)) = prefix

\* path.join(a, b) for paths without "." and ".." segments
PathJoin(a, b) ==
    IF a # <<>> /\ a[Len(a)] = "/" THEN a \o b ELSE a \o <<"/">> \o b

\* A prefix test that forgets the path separator.
MappingAppliesNoBoundary(trimmed, mapping) ==
    StartsWith(trimmed, mapping.containerPrefix)

\* resolveSandboxPath, lines 103-106
MappingApplies(trimmed, mapping) ==
    LET cp == mapping.containerPrefix
        prefix == IF cp # <<>> /\ cp[Len(cp)] = "/" THEN cp ELSE cp \o <<"/">>
    IN  trimmed = cp \/ StartsWith(trimmed, prefix)

\* resolveSandboxPath, lines 107-108
MappedHostPath(trimmed, mapping) ==
    LET rest == SubSeq(trimmed, Len(mapping.containerPrefix) + 1, Len(trimmed))
        suffix == IF rest # <<>> /\ Head(rest) = "/" THEN Tail(rest) ELSE rest
    IN  IF suffix # <<>> THEN PathJoin(mapping.hostPrefix, suffix)
        ELSE mapping.hostPrefix

\* resolveSandboxPath: the host path, or NoPath for null
RECURSIVE ResolveMapped(_, _, _)
ResolveMapped(trimmed, mappings, host) ==
    IF mappings = <<>> THEN NoPath
    ELSE IF /\ MappingApplies(trimmed, Head(mappings))
            /\ MappedHostPath(trimmed, Head(mappings)) \in host
         THEN MappedHostPath(trimmed, Head(mappings))
         ELSE ResolveMapped(trimmed, Tail(mappings), host)

resolveSandboxPath(filePath, pathMappings, host) ==
    IF ~IsAbsolute(filePath) THEN NoPath
    ELSE IF filePath \in host THEN filePath
    ELSE ResolveMapped(filePath, pathMappings, host)

\* parseOutboundFiles: files is a Set in insertion order, missing a list
RECURSIVE CollectFiles(_, _, _, _, _)
CollectFiles(tags, pathMappings, host, files, missing) ==
    IF tags = <<>> THEN [files |-> files, missing |-> missing]
    ELSE LET resolved == resolveSandboxPath(Head(tags), pathMappings, host)
         IN  IF resolved # NoPath
             THEN CollectFiles(Tail(tags), pathMappings, host,
                               IF resolved \in Range(files) THEN files
                               ELSE Append(files, resolved),
                               missing)
             ELSE CollectFiles(Tail(tags), pathMappings, host, files,
                               Append(missing, Head(tags)))

parseOutboundFiles(response, pathMappings, host) ==
    LET c == CollectFiles(response.tags, pathMappings, host, <<>>, <<>>)
    IN  [cleanLength |-> response.textLength, files |-> c.files,
         missing |-> c.missing]

\* The length of the lines '- <path>' joined by '\n'
RECURSIVE ShownLength(_)
ShownLength(shown) ==
    IF shown = <<>> THEN 0
    ELSE 2 + Len(Head(shown)) + (IF Len(shown) > 1 THEN 1 ELSE 0)
         + ShownLength(Tail(shown))

\* processMessage, lines 476-480: the clean text and, if paths are missing,
\* '\n\n[Warning: ...]\n' and up to three of them; trimmed.
WithWarning(parsed) ==
    LET n == IF Len(parsed.missing) < MaxShownMissing
             THEN Len(parsed.missing) ELSE MaxShownMissing
        shown == SubSeq(parsed.missing, 1, n)
        start == IF parsed.cleanLength > 0 THEN parsed.cleanLength + 2 ELSE 0
    IN  IF parsed.missing = <<>>
        THEN [length |-> parsed.cleanLength, textLength |-> parsed.cleanLength,
              header |-> FALSE, warned |-> <<>>, marker |-> FALSE]
        ELSE [length |-> start + WarningHeaderLength + 1 + ShownLength(shown),
              textLength |-> parsed.cleanLength,
              header |-> TRUE, warned |-> shown, marker |-> FALSE]

\* The lines '- <path>' that end within the first `cut` characters; `at` is
\* where the first of them starts.
RECURSIVE KeptPaths(_, _, _)
KeptPaths(shown, at, cut) ==
    IF shown = <<>> THEN <<>>
    ELSE IF at + 2 + Len(Head(shown)) <= cut
         THEN <<Head(shown)>> \o KeptPaths(Tail(shown), at + 2 + Len(Head(shown)) + 1, cut)
         ELSE <<>>

\* A cap that lets every response through.
LimitLengthNever(r) == r

\* processMessage, lines 483-485
LimitLength(r) ==
    IF r.length > MaxResponseLength
    THEN LET start == IF r.textLength > 0 THEN r.textLength + 2 ELSE 0
             header == r.header /\ start + WarningHeaderLength <= TruncateTo
         IN  [length |-> TruncateTo + MarkerLength,
              textLength |-> IF r.textLength < TruncateTo THEN r.textLength
                             ELSE TruncateTo,
              header |-> header,
              warned |-> IF header
                         THEN KeptPaths(r.warned, start + WarningHeaderLength + 1,
                                        TruncateTo)
                         ELSE <<>>,
              marker |-> TRUE]
    ELSE r

\* processMessage, line 475: parseOutboundFiles(finalResponse, allPathMappings)
ParseOutbound ==
    /\ rpc = "aggregated"
    /\ parsedFiles' = parseOutboundFiles(rin, rmap, hostFiles)
    /\ rpc' = "parsed"
    /\ UNCHANGED <<rin, rmap, hostFiles, finalResponse>>
    /\ UNCHANGED <<qvars, pvars, svars, tvars, evars, fvars, nvars>>

\* processMessage, lines 476-480: the warning about missing files
AppendWarning ==
    /\ rpc = "parsed"
    /\ finalResponse' = WithWarning(parsedFiles)
    /\ rpc' = "warned"
    /\ UNCHANGED <<rin, rmap, hostFiles, parsedFiles>>
    /\ UNCHANGED <<qvars, pvars, svars, tvars, evars, fvars, nvars>>

\* processMessage, lines 483-495: the cap, then writeOutgoingResponse
WriteResponse ==
    /\ rpc = "warned"
    /\ finalResponse' = LimitLength(finalResponse)
    /\ rpc' = "written"
    /\ UNCHANGED <<rin, rmap, hostFiles, parsedFiles>>
    /\ UNCHANGED <<qvars, pvars, svars, tvars, evars, fvars, nvars>>

InitResponseIdle ==
    /\ rin = [textLength |-> 0, tags |-> <<>>]
    /\ rmap = <<>>
    /\ hostFiles = {}
    /\ rpc = "idle"
    /\ parsedFiles = [cleanLength |-> 0, files |-> <<>>, missing |-> <<>>]
    /\ finalResponse = [length |-> 0, textLength |-> 0, header |-> FALSE,
                        warned |-> <<>>, marker |-> FALSE]

InitResponse ==
    /\ rin \in [textLength : TextLengths, tags : TagLists(MaxTags)]
    /\ rmap \in PathMappingLists
    /\ hostFiles \in HostPathSets
    /\ rpc = "aggregated"
    /\ parsedFiles = [cleanLength |-> 0, files |-> <<>>, missing |-> <<>>]
    /\ finalResponse = [length |-> 0, textLength |-> 0, header |-> FALSE,
                        warned |-> <<>>, marker |-> FALSE]

NextResponse == ParseOutbound \/ AppendWarning \/ WriteResponse

\* --------------------------------------------------------------- team chain

\* team.agents of the one team; every member is a configured agent
TeamAgents == <<"lead", "coder", "writer">>

\* What an agent may answer: the text, and the @-tokens of the text with the
\* segment that follows each.
Responses ==
    { [text |-> "done", mentions |-> <<>>],
      [text |-> "@coder implement X",
       mentions |-> << [teammateId |-> "coder", message |-> "implement X"] >>],
      [text |-> "@writer document X",
       mentions |-> << [teammateId |-> "writer", message |-> "document X"] >>],
      [text |-> "@coder implement X @writer document X",
       mentions |-> << [teammateId |-> "coder", message |-> "implement X"],
                       [teammateId |-> "writer", message |-> "document X"] >>],
      [text |-> "@writer document X @lead review X",
       mentions |-> << [teammateId |-> "writer", message |-> "document X"],
                       [teammateId |-> "lead", message |-> "review X"] >>],
      [text |-> "@lead review X",
       mentions |-> << [teammateId |-> "lead", message |-> "review X"] >>],
      [text |-> "@ghost hello",
       mentions |-> << [teammateId |-> "ghost", message |-> "hello"] >>] }

NoResponse == [text |-> "", mentions |-> <<>>]

\* routing.message of the user's message
UserMessage == "hello"

FailureClasses == {"transient", "terminal"}

\* routing.ts extractTeammateMentions
extractTeammateMentions(response, selfId, team) ==
    SelectSeq(response.mentions,
              LAMBDA m : m.teammateId \in Range(team) /\ m.teammateId # selfId)

\* A hand-off that passes the mention text on as it is.
HandoffMessagePlain(prev, text) == text

\* processMessage, lines 377 and 396
HandoffMessage(prev, text) ==
    "[Message from teammate @" \o prev \o "]:\n" \o text

\* processMessage, line 430
Render(step) == "@" \o step.agentId \o ": " \o step.response.text

RECURSIVE JoinSteps(_)
JoinSteps(steps) ==
    IF steps = <<>> THEN ""
    ELSE IF Len(steps) = 1 THEN Render(steps[1])
    ELSE Render(Head(steps)) \o "\n\n---\n\n" \o JoinSteps(Tail(steps))

\* processMessage, lines 426-432
Aggregate(steps) ==
    IF Len(steps) = 1 THEN steps[1].response.text ELSE JoinSteps(steps)

\* A fan-out that invokes the first mentioned teammate only.
FanOutCallsFirstOnly(mentions, from) ==
    << [agentId |-> mentions[1].teammateId,
        message |-> HandoffMessage(from, mentions[1].message)] >>

\* processMessage, lines 386-406: one invokeAgent call per mention
FanOutCalls(mentions, from) ==
    [i \in 1..Len(mentions) |->
        [agentId |-> mentions[i].teammateId,
         message |-> HandoffMessage(from, mentions[i].message)]]

\* Fan-out results collected as the siblings return.
FanOutResultsAsSettled(siblings, order) ==
    [i \in 1..Len(order) |->
        [agentId |-> siblings[order[i]].agentId,
         response |-> siblings[order[i]].response]]

\* processMessage, lines 385-417: Promise.all keeps the order of the mentions
FanOutResults(siblings, order) ==
    [i \in 1..Len(siblings) |->
        [agentId |-> siblings[i].agentId, response |-> siblings[i].response]]

Running(siblings) == {i \in 1..Len(siblings) : siblings[i].state = "running"}

\* processMessage catch, lines 511-529: requeue with attempt + 1, or give up;
\* `running` invocations of the run go on without it.
TeamCatch(class, running) ==
    LET attempt == NextAttempt(TRUE, tattempt)
    IN  /\ IF ShouldRetry(class = "terminal", attempt,
                          getSandboxConfig(cfgMaxAttempts), TRUE, TRUE)
           THEN tattempt' = attempt /\ tpc' = "start"
           ELSE tpc' = "dead" /\ UNCHANGED tattempt
        /\ stray' = stray + running
        /\ failures' = failures + 1

\* A response that names the agent the chain loop has moved to.
ResponseAgentCurrent == currentAgentId

\* processMessage, lines 487-495: the agent argument of writeOutgoingResponse
\* is agentId, the agent the message was routed to; the chain loop moves
\* currentAgentId and leaves agentId as it is.
ResponseAgent == tfirst

\* processMessage of a message for a team member, up to the first
\* `await invokeAgent` of the chain loop.
StartTeamRun ==
    /\ tpc = "start"
    /\ chainSteps' = <<>>
    /\ currentAgentId' = tfirst
    /\ currentMessage' = UserMessage
    /\ calls' = << [agentId |-> tfirst, message |-> UserMessage] >>
    /\ started' = started + 1
    /\ fan' = <<>>
    /\ settledOrder' = <<>>
    /\ tpc' = "step"
    /\ UNCHANGED <<script, tfirst, tattempt, settled, failures, stray, tfinal>>
    /\ UNCHANGED <<qvars, pvars, svars, rvars, evars, fvars, nvars>>

\* The invocation of a chain step returns: the step is recorded, and the
\* chain ends, hands off to one teammate, or fans out to several.
StepReturns ==
    /\ tpc = "step"
    /\ LET resp == script[currentAgentId]
           steps == Append(chainSteps, [agentId |-> currentAgentId, response |-> resp])
           mentions == extractTeammateMentions(resp, currentAgentId, TeamAgents)
       IN  /\ Len(mentions) = 1 => Len(steps) < MaxChainSteps
           /\ chainSteps' = steps
           /\ settled' = settled + 1
           /\ IF Len(mentions) = 0
              THEN /\ tfinal' = Aggregate(steps)
                   /\ tpc' = "done"
                   /\ UNCHANGED <<currentAgentId, currentMessage, calls, started, fan>>
              ELSE IF Len(mentions) = 1
              THEN /\ currentAgentId' = mentions[1].teammateId
                   /\ currentMessage' =
                         HandoffMessage(steps[Len(steps)].agentId, mentions[1].message)
                   /\ calls' = Append(calls, [agentId |-> currentAgentId',
                                              message |-> currentMessage'])
                   /\ started' = started + 1
                   /\ UNCHANGED <<tpc, tfinal, fan>>
              ELSE LET c == FanOutCalls(mentions, currentAgentId)
                   IN  /\ fan' = [i \in 1..Len(c) |->
                                    [agentId |-> c[i].agentId, state |-> "running",
                                     response |-> NoResponse]]
                       /\ calls' = calls \o c
                       /\ started' = started + Len(c)
                       /\ tpc' = "fanout"
                       /\ UNCHANGED <<currentAgentId, currentMessage, tfinal>>
    /\ UNCHANGED <<script, tfirst, tattempt, settledOrder, failures, stray>>
    /\ UNCHANGED <<qvars, pvars, svars, rvars, evars, fvars, nvars>>

\* The invocation of a chain step throws.
StepFails(class) ==
    /\ tpc = "step"
    /\ settled' = settled + 1
    /\ TeamCatch(class, 0)
    /\ UNCHANGED <<script, tfirst, chainSteps, currentAgentId, currentMessage,
                   fan, settledOrder, calls, started, tfinal>>
    /\ UNCHANGED <<qvars, pvars, svars, rvars, evars, fvars, nvars>>

\* A sibling of the fan-out returns; with the last one Promise.all resolves,
\* the results are appended to chainSteps and the chain ends.
SiblingReturns(i) ==
    /\ tpc = "fanout"
    /\ i \in Running(fan)
    /\ LET fan2 == [fan EXCEPT ![i].state = "ok",
                               ![i].response = script[fan[i].agentId]]
           order == Append(settledOrder, i)
           steps == chainSteps \o FanOutResults(fan2, order)
       IN  /\ fan' = fan2
           /\ settledOrder' = order
           /\ IF Running(fan2) = {}
              THEN /\ chainSteps' = steps
                   /\ tfinal' = Aggregate(steps)
                   /\ tpc' = "done"
              ELSE UNCHANGED <<chainSteps, tfinal, tpc>>
    /\ settled' = settled + 1
    /\ UNCHANGED <<script, tfirst, tattempt, currentAgentId, currentMessage,
                   calls, started, failures, stray>>
    /\ UNCHANGED <<qvars, pvars, svars, rvars, evars, fvars, nvars>>

\* A sibling of the fan-out throws: Promise.all rejects, the catch block runs,
\* the other siblings go on.
SiblingFails(i, class) ==
    /\ tpc = "fanout"
    /\ i \in Running(fan)
    /\ fan' = [fan EXCEPT ![i].state = "failed"]
    /\ settled' = settled + 1
    /\ TeamCatch(class, Cardinality(Running(fan) \ {i}))
    /\ UNCHANGED <<script, tfirst, chainSteps, currentAgentId, currentMessage,
                   settledOrder, calls, started, tfinal>>
    /\ UNCHANGED <<qvars, pvars, svars, rvars, evars, fvars, nvars>>

\* An invocation that outlived its run settles.
StraySettles ==
    /\ stray > 0
    /\ stray' = stray - 1
    /\ settled' = settled + 1
    /\ UNCHANGED <<script, tfirst, tpc, tattempt, chainSteps, currentAgentId,
                   currentMessage, fan, settledOrder, calls, started, failures,
                   tfinal>>
    /\ UNCHANGED <<qvars, pvars, svars, rvars, evars, fvars, nvars>>

InitTeamIdle ==
    /\ script = [a \in Range(TeamAgents) |-> NoResponse]
    /\ tfirst = "lead"
    /\ tpc = "idle"
    /\ tattempt = 0
    /\ chainSteps = <<>>
    /\ currentAgentId = "lead"
    /\ currentMessage = ""
    /\ fan = <<>>
    /\ settledOrder = <<>>
    /\ calls = <<>>
    /\ started = 0
    /\ settled = 0
    /\ failures = 0
    /\ stray = 0
    /\ tfinal = ""

InitTeam ==
    /\ script \in [Range(TeamAgents) -> Responses]
    /\ tfirst \in Range(TeamAgents)
    /\ tpc = "start"
    /\ tattempt = 0
    /\ chainSteps = <<>>
    /\ currentAgentId = tfirst
    /\ currentMessage = ""
    /\ fan = <<>>
    /\ settledOrder = <<>>
    /\ calls = <<>>
    /\ started = 0
    /\ settled = 0
    /\ failures = 0
    /\ stray = 0
    /\ tfinal = ""

NextTeam ==
    \/ StartTeamRun
    \/ StepReturns
    \/ \E c \in FailureClasses : StepFails(c)
    \/ \E i \in 1..Len(TeamAgents) : SiblingReturns(i)
    \/ \E i \in 1..Len(TeamAgents), c \in FailureClasses : SiblingFails(i, c)
    \/ StraySettles

\* ---------------------------------------------------- error texts, secrets

\* Two runs of the processor that differ in the value of the API key only.
Runs == {1, 2}
KeyValues == {"sk-1", "sk-2"}

\* An error text is the list of its words.  A word is plain, or it has the
\* form NAME=value; the value "$" stands for the value of the API key.
Plain(v) == [name |-> "", value |-> v]
Assign(n, v) == [name |-> n, value |-> v]

\* What a provider CLI or a container runtime may write to stderr before it
\* exits with a code other than 0: runHost and runContainer make the trimmed
\* stderr the message of the error they throw.
ErrorTemplates ==
    { << Plain("exit"), Plain("1") >>,
      << Plain("auth"), Plain("failed:"), Assign("ANTHROPIC_API_KEY", "$") >>,
      << Assign("OPENAI_API_KEY", "$"), Plain("rejected") >>,
      << Plain("<250 characters>"), Assign("ANTHROPIC_API_KEY", "$") >>,
      << Assign("ANTHROPIC_API_KEY", ""), Plain("unset") >>,
      << Assign("SESSION_TOKEN", "abc") >> }

\* The message of the error in a run whose API key is `key`.
ErrorText(template, key) ==
    [k \in 1..Len(template) |->
        IF template[k].value = "$" THEN Assign(template[k].name, key)
        ELSE template[k]]

\* The number of characters a word takes, the blank after it included.
Width(word) == IF word.value = "<250 characters>" THEN 250 ELSE 30

\* String.prototype.slice(0, n), on words: the words that lie within the
\* first n characters (a word that slice cuts is left out).
RECURSIVE Slice(_, _)
Slice(text, n) ==
    IF text = <<>> \/ Width(Head(text)) > n THEN <<>>
    ELSE <<Head(text)>> \o Slice(Tail(text), n - Width(Head(text)))

\* toSafeErrorMessage:
\* text.replace(/(ANTHROPIC_API_KEY|OPENAI_API_KEY)=\S+/g, '$1=[REDACTED]')
toSafeErrorMessage(text) ==
    [k \in 1..Len(text) |->
        IF text[k].name \in ApiKeys /\ text[k].value # ""
        THEN Assign(text[k].name, "[REDACTED]")
        ELSE text[k]]

\* logging.ts emitEvent(type, data): the record is appended to the event
\* stream as it is given.
emitEvent(stream, data) == Append(stream, data)

\* The userMessage of a SandboxInvocationError: a fixed text per error site.
ErrorUserMessage == << Plain("The"), Plain("provider"), Plain("CLI"),
                       Plain("returned"), Plain("an"), Plain("error.") >>

\* invokeAgent, lines 170-189: runInSandbox has thrown; the catch block emits
\* sandbox_invocation_error with message: err.message.slice(0, 240) and
\* rethrows the error.
InvocationThrows(class) ==
    /\ epc = "invoking"
    /\ eevents' = [r \in Runs |->
                     emitEvent(eevents[r],
                               Slice(ErrorText(etemplate, ekeys[r]),
                                     EventMessageLength))]
    /\ eclass' = class
    /\ epc' = "thrown"
    /\ UNCHANGED <<ekeys, etemplate, eattempt, elog, edead, eresp>>
    /\ UNCHANGED <<qvars, pvars, svars, rvars, tvars, fvars, nvars>>

\* processMessage catch, lines 503-573: the error is sanitized and logged; the
\* message is requeued, or the dead-letter record and the response with the
\* error's userMessage are written.
CatchError ==
    /\ epc = "thrown"
    /\ LET attempt == NextAttempt(TRUE, eattempt)
           safeError == [r \in Runs |->
                           toSafeErrorMessage(ErrorText(etemplate, ekeys[r]))]
       IN  /\ elog' = [r \in Runs |-> Append(elog[r], safeError[r])]
           /\ IF ShouldRetry(eclass = "terminal", attempt,
                             getSandboxConfig(cfgMaxAttempts), TRUE, TRUE)
              THEN /\ eattempt' = attempt
                   /\ epc' = "invoking"
                   /\ UNCHANGED <<edead, eresp>>
              ELSE /\ edead' = [r \in Runs |-> Append(edead[r], safeError[r])]
                   /\ eresp' = [r \in Runs |-> Append(eresp[r], ErrorUserMessage)]
                   /\ epc' = "done"
                   /\ UNCHANGED eattempt
    /\ UNCHANGED <<ekeys, etemplate, eclass, eevents>>
    /\ UNCHANGED <<qvars, pvars, svars, rvars, tvars, fvars, nvars>>

InitErrorsIdle ==
    /\ ekeys = <<"sk-1", "sk-1">>
    /\ etemplate = <<>>
    /\ eclass = "none"
    /\ epc = "idle"
    /\ eattempt = 0
    /\ eevents = [r \in Runs |-> <<>>]
    /\ elog = [r \in Runs |-> <<>>]
    /\ edead = [r \in Runs |-> <<>>]
    /\ eresp = [r \in Runs |-> <<>>]

InitErrors ==
    /\ ekeys \in KeyValues \X KeyValues
    /\ etemplate \in ErrorTemplates
    /\ eclass = "none"
    /\ epc = "invoking"
    /\ eattempt = 0
    /\ eevents = [r \in Runs |-> <<>>]
    /\ elog = [r \in Runs |-> <<>>]
    /\ edead = [r \in Runs |-> <<>>]
    /\ eresp = [r \in Runs |-> <<>>]

NextErrors ==
    \/ \E c \in FailureClasses : InvocationThrows(c)
    \/ CatchError

\* ------------------------------------------------------------- reset flags

\* The reset flag files: the global reset_flag and one per agent.
FlagNames == {"global"} \cup Range(TeamAgents)

\* processMessage, line 297:
\* fs.existsSync(RESET_FLAG) || fs.existsSync(agentResetFlag)
shouldReset(flags, agentId) == "global" \in flags \/ agentId \in flags

\* processMessage, lines 299-303: clean up both flags
CleanUpFlags(flags, agentId) ==
    IF shouldReset(flags, agentId) THEN flags \ {"global", agentId} ELSE flags

\* A chain step that resets on the global flag as well.
currentShouldResetGlobal(flags, agentId) ==
    "global" \in flags \/ agentId \in flags

\* processMessage, lines 335-337 for chainSteps.length > 0, and line 391:
\* fs.existsSync(currentResetFlag)
currentShouldReset(flags, agentId) == agentId \in flags

\* processMessage, lines 339-341 and 392: unlink the agent's own flag
UnlinkOwnFlag(flags, agentId, reset) ==
    IF reset /\ agentId \in flags THEN flags \ {agentId} ELSE flags

\* One invokeAgent call as the flags saw it.
ResetRecord(agentId, reset, first, before, after) ==
    [agentId |-> agentId, reset |-> reset, first |-> first,
     before |-> before, after |-> after]

\* processMessage, lines 386-392: the callbacks of the fan-out run one after
\* the other up to their invokeAgent call, each looking at its own flag.
RECURSIVE FanOutResets(_, _, _)
FanOutResets(mentions, flags, log) ==
    IF mentions = <<>> THEN [flags |-> flags, log |-> log]
    ELSE LET a == Head(mentions)
             reset == currentShouldReset(flags, a)
             after == UnlinkOwnFlag(flags, a, reset)
         IN  FanOutResets(Tail(mentions), after,
                          Append(log, ResetRecord(a, reset, FALSE, flags, after)))

\* `tinyclaw reset` or `tinyclaw agent reset <id>` creates a flag file.
TouchFlag(x) ==
    /\ ftouched < MaxTouches
    /\ x \notin resetFlags
    /\ resetFlags' = resetFlags \cup {x}
    /\ ftouched' = ftouched + 1
    /\ UNCHANGED <<fpc, ffirst, fcurrent, finv, ffailed, fattempt>>
    /\ UNCHANGED <<qvars, pvars, svars, rvars, tvars, evars, nvars>>

\* processMessage, lines 295-343: the reset of the first invocation, of a
\* single agent or of the first step of a chain.
FirstInvocation ==
    /\ fpc = "start"
    /\ LET reset == shouldReset(resetFlags, ffirst)
           after == CleanUpFlags(resetFlags, ffirst)
       IN  /\ resetFlags' = UnlinkOwnFlag(after, ffirst, reset)
           /\ finv' = <<ResetRecord(ffirst, reset, TRUE, resetFlags,
                                    UnlinkOwnFlag(after, ffirst, reset))>>
           /\ ffailed' = IF reset THEN ffailed \ {ffirst} ELSE ffailed
    /\ fcurrent' = ffirst
    /\ fpc' = "step"
    /\ UNCHANGED <<ffirst, ftouched, fattempt>>
    /\ UNCHANGED <<qvars, pvars, svars, rvars, tvars, evars, nvars>>

\* The step has returned with one teammate mentioned: lines 371-377, then
\* lines 333-343 for the next step.
HandOffReset(next) ==
    /\ fpc = "step"
    /\ next # fcurrent
    /\ Len(finv) < MaxChainSteps
    /\ LET reset == currentShouldReset(resetFlags, next)
           after == UnlinkOwnFlag(resetFlags, next, reset)
       IN  /\ resetFlags' = after
           /\ finv' = Append(finv, ResetRecord(next, reset, FALSE, resetFlags, after))
           /\ ffailed' = IF reset THEN ffailed \ {next} ELSE ffailed
    /\ fcurrent' = next
    /\ UNCHANGED <<fpc, ffirst, ftouched, fattempt>>
    /\ UNCHANGED <<qvars, pvars, svars, rvars, tvars, evars, nvars>>

\* The step has returned with several teammates mentioned: lines 385-406.
FanOutReset(mentions) ==
    /\ fpc = "step"
    /\ \A k \in 1..Len(mentions) : mentions[k] # fcurrent
    /\ LET r == FanOutResets(mentions, resetFlags, finv)
       IN  /\ resetFlags' = r.flags
           /\ finv' = r.log
           /\ ffailed' = ffailed \ {mentions[k] : k \in
                                      {j \in 1..Len(mentions) : mentions[j] \in resetFlags}}
    /\ fpc' = "done"
    /\ UNCHANGED <<ffirst, fcurrent, ftouched, fattempt>>
    /\ UNCHANGED <<qvars, pvars, svars, rvars, tvars, evars, nvars>>

\* The step has returned with no teammate mentioned, or the agent has no team.
ChainEndsReset ==
    /\ fpc = "step"
    /\ fpc' = "done"
    /\ UNCHANGED <<resetFlags, ffirst, fcurrent, finv, ftouched, ffailed, fattempt>>
    /\ UNCHANGED <<qvars, pvars, svars, rvars, tvars, evars, nvars>>

\* The invocation of the current step throws: processMessage catch, lines
\* 503-573.  The message is requeued with attempt + 1 and a later tick runs
\* processMessage for it from the start, or it is dead-lettered; the flags
\* that were unlinked for the failed invocation stay unlinked.
InvocationFails(class) ==
    /\ fpc = "step"
    /\ LET last == finv[Len(finv)]
           attempt == NextAttempt(TRUE, fattempt)
       IN  /\ ffailed' = IF last.reset THEN ffailed \cup {last.agentId} ELSE ffailed
           /\ IF ShouldRetry(class = "terminal", attempt,
                             getSandboxConfig(cfgMaxAttempts), TRUE, TRUE)
              THEN /\ fattempt' = attempt
                   /\ fpc' = "start"
                   /\ finv' = <<>>
              ELSE /\ fpc' = "dead"
                   /\ UNCHANGED <<fattempt, finv>>
    /\ UNCHANGED <<resetFlags, ffirst, fcurrent, ftouched>>
    /\ UNCHANGED <<qvars, pvars, svars, rvars, tvars, evars, nvars>>

\* The mentions of a fan-out: two different teammates, in the order of the text.
FanOutMentions ==
    {<<a, b>> : a, b \in Range(TeamAgents)} \ {<<a, a>> : a \in Range(TeamAgents)}

InitResetIdle ==
    /\ resetFlags = {}
    /\ fpc = "idle"
    /\ ffirst = "lead"
    /\ fcurrent = "lead"
    /\ finv = <<>>
    /\ ftouched = 0
    /\ ffailed = {}
    /\ fattempt = 0

InitReset ==
    /\ resetFlags \in SUBSET FlagNames
    /\ fpc = "start"
    /\ ffirst \in Range(TeamAgents)
    /\ fcurrent = ffirst
    /\ finv = <<>>
    /\ ftouched = 0
    /\ ffailed = {}
    /\ fattempt = 0

NextReset ==
    \/ \E x \in FlagNames : TouchFlag(x)
    \/ FirstInvocation
    \/ \E a \in Range(TeamAgents) : HandOffReset(a)
    \/ \E m \in FanOutMentions : FanOutReset(m)
    \/ ChainEndsReset
    \/ \E c \in FailureClasses : InvocationFails(c)

\* ------------------------------------------------------------ team context

\* settings.agents of a team installation, as Object.keys() lists it
ContextAgents == <<"lead", "coder", "writer">>

\* The teams an installation may configure; lead leads two of them.
TeamPool ==
    { [id |-> "dev",  agents |-> {"lead", "coder"},   leader_agent |-> "lead"],
      [id |-> "docs", agents |-> {"lead", "writer"},  leader_agent |-> "lead"],
      [id |-> "ops",  agents |-> {"coder", "writer"}, leader_agent |-> "coder"] }

\* settings.teams as Object.entries() lists it: any of the teams in any order
TeamConfigs ==
    {<<>>} \cup {<<t>> : t \in TeamPool}
           \cup {<<t, u>> : t, u \in TeamPool}
           \cup {<<t, u, v>> : t, u, v \in TeamPool}

DistinctIds(tms) ==
    \A i, j \in 1..Len(tms) : tms[i].id = tms[j].id => i = j

\* What a channel client may send: the leading @-token of the text ("" for
\* none, "multi" for several targets) and the agent field of a pre-routed
\* message.
RawMessages ==
    [token : {"", "dev", "docs", "ops", "lead", "coder", "writer", "ghost", "multi"},
     agent : {"", "writer"}]

NoRouting == [agentId |-> "default", isTeam |-> FALSE]

TeamIndex(tms, id) == CHOOSE i \in 1..Len(tms) : tms[i].id = id

\* routing.ts parseAgentRouting(rawMessage, agents, teams): agentId and isTeam
parseRouting(token, ags, tms) ==
    IF token = "multi" THEN [agentId |-> "error", isTeam |-> FALSE]
    ELSE IF token \in Range(ags) THEN [agentId |-> token, isTeam |-> FALSE]
    ELSE IF \E i \in 1..Len(tms) : tms[i].id = token
    THEN [agentId |-> tms[TeamIndex(tms, token)].leader_agent, isTeam |-> TRUE]
    ELSE NoRouting

\* routing.ts findTeamForAgent(agentId, teams): the first team containing the
\* agent, "" for null
findTeamForAgent(agentId, tms) ==
    IF \E i \in 1..Len(tms) : agentId \in tms[i].agents
    THEN tms[CHOOSE i \in 1..Len(tms) :
                 /\ agentId \in tms[i].agents
                 /\ \A j \in 1..(i - 1) : agentId \notin tms[j].agents].id
    ELSE ""

\* processMessage, lines 283-288: the first team in Object.entries(teams)
\* whose leader_agent is agentId and whose agents include agentId
TeamOfLeader(agentId, tms, token) ==
    IF \E i \in 1..Len(tms) :
          tms[i].leader_agent = agentId /\ agentId \in tms[i].agents
    THEN tms[CHOOSE i \in 1..Len(tms) :
                 /\ tms[i].leader_agent = agentId /\ agentId \in tms[i].agents
                 /\ \A j \in 1..(i - 1) :
                       ~(tms[j].leader_agent = agentId /\ agentId \in tms[j].agents)].id
    ELSE ""

\* processMessage, lines 234-276: the pre-routed agent or parseAgentRouting,
\* the easter egg, then the two fallbacks.
RouteToAgent ==
    /\ cpc = "start"
    /\ LET preRouted == rawMessage.agent # "" /\ rawMessage.agent \in Range(ContextAgents)
           parsed == IF preRouted
                     THEN [agentId |-> rawMessage.agent, isTeam |-> FALSE]
                     ELSE parseRouting(rawMessage.token, ContextAgents, teams)
           agentId == IF parsed.agentId = "error" THEN "error"
                      ELSE IF parsed.agentId \in Range(ContextAgents) THEN parsed.agentId
                      ELSE IF "default" \in Range(ContextAgents) THEN "default"
                      ELSE ContextAgents[1]
       IN  /\ routing' = [agentId |-> agentId, isTeam |-> parsed.isTeam]
           /\ cpc' = IF agentId = "error" THEN "done" ELSE "routed"
    /\ UNCHANGED <<teams, rawMessage, teamContext>>
    /\ UNCHANGED <<qvars, pvars, svars, rvars, tvars, evars, fvars, xvars, mvars>>

\* processMessage, lines 278-293: the team of the chain, of its events and of
\* its chat history.
DetermineTeamContext ==
    /\ cpc = "routed"
    /\ LET targeted == IF routing.isTeam
                       THEN TeamOfLeader(routing.agentId, teams, rawMessage.token)
                       ELSE ""
       IN  teamContext' = IF targeted # "" THEN targeted
                          ELSE findTeamForAgent(routing.agentId, teams)
    /\ cpc' = "context"
    /\ UNCHANGED <<teams, rawMessage, routing>>
    /\ UNCHANGED <<qvars, pvars, svars, rvars, tvars, evars, fvars, xvars, mvars>>

InitContext ==
    /\ teams \in {t \in TeamConfigs : DistinctIds(t)}
    /\ rawMessage \in RawMessages
    /\ cpc = "start"
    /\ routing = NoRouting
    /\ teamContext = ""

NextContext == RouteToAgent \/ DetermineTeamContext

InitContextIdle ==
    /\ teams = <<>>
    /\ rawMessage = [token |-> "", agent |-> ""]
    /\ cpc = "idle"
    /\ routing = NoRouting
    /\ teamContext = ""

\* ------------------------------------------------------ parseCodexResponse

\* The values JSON.parse gives for the lines `codex exec --json` may print.
\* NoItem stands for an absent item, Undefined for an absent text.
NoItem == [type |-> "", text |-> ""]
Undefined == "<undefined>"
AgentMessage(text) ==
    [parses |-> TRUE, isNull |-> FALSE, type |-> "item.completed",
     item |-> [type |-> "agent_message", text |-> text]]

CodexLines ==
    { [parses |-> FALSE, isNull |-> FALSE, type |-> "", item |-> NoItem],
      [parses |-> TRUE, isNull |-> TRUE, type |-> "", item |-> NoItem],
      [parses |-> TRUE, isNull |-> FALSE, type |-> "turn.started", item |-> NoItem],
      [parses |-> TRUE, isNull |-> FALSE, type |-> "item.completed", item |-> NoItem],
      [parses |-> TRUE, isNull |-> FALSE, type |-> "item.completed",
       item |-> [type |-> "reasoning", text |-> "thinking"]],
      [parses |-> TRUE, isNull |-> FALSE, type |-> "turn.completed",
       item |-> [type |-> "agent_message", text |-> "C"]],
      AgentMessage("A"), AgentMessage("B"), AgentMessage(""),
      AgentMessage(Undefined) }

RECURSIVE CodexOutputs(_)
CodexOutputs(n) ==
    IF n = 0 THEN {<<>>}
    ELSE CodexOutputs(n - 1) \cup
         {Append(o, l) : o \in {x \in CodexOutputs(n - 1) : Len(x) = n - 1},
                         l \in CodexLines}

CodexFallback == "Sorry, I could not generate a response from Codex."

\* codexOutput.trim().split('\n'): the empty output is one empty line, which
\* is no JSON
SplitLines(output) ==
    IF output = <<>>
    THEN << [parses |-> FALSE, isNull |-> FALSE, type |-> "", item |-> NoItem] >>
    ELSE output

\* The body of the try block for one line: JSON.parse throws a SyntaxError,
\* json.type of null throws a TypeError, the line is the agent's message, or
\* it is some other event.
LineOutcome(line) ==
    IF ~line.parses THEN "SyntaxError"
    ELSE IF line.isNull THEN "TypeError"
    ELSE IF line.type = "item.completed" /\ line.item.type = "agent_message"
    THEN "agent_message"
    ELSE "other"

\* response || fallback
Truthy(value) == value # "" /\ value # Undefined

\* A loop that stops at the first agent message.
RECURSIVE CodexLoopFirst(_, _)
CodexLoopFirst(lines, response) ==
    IF lines = <<>> THEN response
    ELSE IF LineOutcome(Head(lines)) = "agent_message" THEN Head(lines).item.text
    ELSE CodexLoopFirst(Tail(lines), response)

\* parseCodexResponse, lines 40-49: the loop over the lines; both exceptions
\* are caught and the line is ignored
RECURSIVE CodexLoop(_, _)
CodexLoop(lines, response) ==
    IF lines = <<>> THEN response
    ELSE CodexLoop(Tail(lines),
                   IF LineOutcome(Head(lines)) = "agent_message"
                   THEN Head(lines).item.text
                   ELSE response)

\* parseCodexResponse
parseCodexResponse(output) ==
    LET response == CodexLoop(SplitLines(output), "")
    IN  [threw |-> FALSE,
         value |-> IF Truthy(response) THEN response ELSE CodexFallback]

\* invokeAgent, provider openai: the stdout of the codex CLI is parsed.
ParseCodexOutput ==
    /\ xpc = "start"
    /\ codexResponse' = parseCodexResponse(codexOutput)
    /\ xpc' = "done"
    /\ UNCHANGED codexOutput
    /\ UNCHANGED <<qvars, pvars, svars, rvars, tvars, evars, fvars, cvars, mvars>>

InitCodex ==
    /\ codexOutput \in CodexOutputs(MaxLines)
    /\ xpc = "start"
    /\ codexResponse = [threw |-> FALSE, value |-> ""]

NextCodex == ParseCodexOutput

InitCodexIdle ==
    /\ codexOutput = <<>>
    /\ xpc = "idle"
    /\ codexResponse = [threw |-> FALSE, value |-> ""]

\* ----------------------------------------------- chains of several messages

\* The messages of the queue in mtime order, each addressed to a member of the
\* one team; processQueue has put each on the promise chain of its agent.
Queued == 1..MaxQueued

\* processQueue, lines 629-633: processMessage(file) is chained behind the
\* messages that were put on the chain of the same agent before it
ChainFree(m) ==
    \A n \in Queued :
        (n < m /\ mfirst[n] = mfirst[m]) => mpc[n] \in {"done", "failed"}

\* The agents with an invocation in flight on behalf of message m.
InFlightAgents(m) ==
    IF mpc[m] = "step" THEN {mcurrent[m]}
    ELSE IF mpc[m] = "fanout" THEN mfan[m]
    ELSE {}

\* processMessage(m) up to the first `await invokeAgent` of the chain loop.
StartChain(m) ==
    /\ mpc[m] = "queued"
    /\ ChainFree(m)
    /\ mpc' = [mpc EXCEPT ![m] = "step"]
    /\ mcurrent' = [mcurrent EXCEPT ![m] = mfirst[m]]
    /\ UNCHANGED <<mscript, mfirst, mfan>>
    /\ UNCHANGED <<qvars, pvars, svars, rvars, tvars, evars, fvars, cvars, xvars>>

\* processMessage, lines 353-423: the invocation of the current step returns;
\* the chain ends, goes on with the one teammate mentioned (while (true) has no
\* other exit and no limit of steps), or fans out.
ChainStepReturns(m) ==
    /\ mpc[m] = "step"
    /\ LET mentions == extractTeammateMentions(mscript[mcurrent[m]], mcurrent[m],
                                               TeamAgents)
       IN  IF Len(mentions) = 0
           THEN /\ mpc' = [mpc EXCEPT ![m] = "done"]
                /\ UNCHANGED <<mcurrent, mfan>>
           ELSE IF Len(mentions) = 1
           THEN /\ mcurrent' = [mcurrent EXCEPT ![m] = mentions[1].teammateId]
                /\ UNCHANGED <<mpc, mfan>>
           ELSE /\ mfan' = [mfan EXCEPT ![m] =
                               {mentions[k].teammateId : k \in 1..Len(mentions)}]
                /\ mpc' = [mpc EXCEPT ![m] = "fanout"]
                /\ UNCHANGED mcurrent
    /\ UNCHANGED <<mscript, mfirst>>
    /\ UNCHANGED <<qvars, pvars, svars, rvars, tvars, evars, fvars, cvars, xvars>>

\* The invocation of the current step throws: the catch block requeues or
\* dead-letters the message and processMessage returns.
ChainStepThrows(m) ==
    /\ mpc[m] = "step"
    /\ mpc' = [mpc EXCEPT ![m] = "failed"]
    /\ UNCHANGED <<mscript, mfirst, mcurrent, mfan>>
    /\ UNCHANGED <<qvars, pvars, svars, rvars, tvars, evars, fvars, cvars, xvars>>

\* processMessage, lines 385-421: a sibling of the fan-out returns; with the
\* last one Promise.all resolves and the chain ends.
ChainSiblingReturns(m, a) ==
    /\ mpc[m] = "fanout"
    /\ a \in mfan[m]
    /\ mfan' = [mfan EXCEPT ![m] = @ \ {a}]
    /\ mpc' = [mpc EXCEPT ![m] = IF mfan[m] = {a} THEN "done" ELSE "fanout"]
    /\ UNCHANGED <<mscript, mfirst, mcurrent>>
    /\ UNCHANGED <<qvars, pvars, svars, rvars, tvars, evars, fvars, cvars, xvars>>

InitChains ==
    /\ mscript \in [Range(TeamAgents) -> Responses]
    /\ mfirst \in [Queued -> Range(TeamAgents)]
    /\ mpc = [m \in Queued |-> "queued"]
    /\ mcurrent = mfirst
    /\ mfan = [m \in Queued |-> {}]

NextChains ==
    \/ \E m \in Queued : StartChain(m)
    \/ \E m \in Queued : ChainStepReturns(m)
    \/ \E m \in Queued : ChainStepThrows(m)
    \/ \E m \in Queued, a \in Range(TeamAgents) : ChainSiblingReturns(m, a)

InitChainsIdle ==
    /\ mscript = [a \in Range(TeamAgents) |-> NoResponse]
    /\ mfirst = [m \in Queued |-> "lead"]
    /\ mpc = [m \in Queued |-> "idle"]
    /\ mcurrent = [m \in Queued |-> "lead"]
    /\ mfan = [m \in Queued |-> {}]

\* ---------------------------------------------------------- specifications

InitQueue ==
    /\ agents \in AgentConfigs
    /\ cfgMaxAttempts \in ConfiguredMaxAttempts
    /\ incoming = [f \in Names |-> NoFile]
    /\ processing = [f \in Names |-> NoFile]
    /\ mtimeOrder = <<>>
    /\ outgoing = <<>>
    /\ deadLetter = <<>>
    /\ created = 0
    /\ up = FALSE
    /\ restarts = 0
    /\ queuedFiles = {}
    /\ chains = [k \in ChainKeys |-> <<>>]
    /\ pm = [f \in Names |-> "idle"]
    /\ invocations = [f \in Names |-> 0]
    /\ lastOutcome = [f \in Names |-> "none"]
    /\ wq = <<>>

InitPermitIdle ==
    /\ sandboxActive = 0
    /\ sandboxWaiters = <<>>
    /\ limit = 0
    /\ ipc = [i \in Invocations |-> "idle"]
    /\ imode = [i \in Invocations |-> "host"]
    /\ resumeQueue = <<>>
    /\ requested = <<>>

Init ==
    /\ InitQueue
    /\ granular = FALSE
    /\ InitPermitIdle
    /\ InitSandboxIdle
    /\ InitResponseIdle
    /\ InitTeamIdle
    /\ InitErrorsIdle
    /\ InitResetIdle
    /\ InitContextIdle
    /\ InitCodexIdle
    /\ InitChainsIdle

Next == NextQueue

Spec == Init /\ [][Next]_vars

\* The processor with its timer firing, its promise callbacks being run, every
\* invocation settling and the process being started again after an exit.
LiveQueue ==
    /\ Init /\ [][Next]_vars
    /\ WF_vars(Startup)
    /\ WF_vars(ProcessQueue)
    /\ \A f \in Names : WF_vars(StartMessage(f))
    /\ \A f \in Names : WF_vars(\E o \in Outcomes : CompleteInvocation(f, o))

\* The same processor with every writeFileSync observed in two steps.
InitFs ==
    /\ InitQueue
    /\ granular = TRUE
    /\ InitPermitIdle
    /\ InitSandboxIdle
    /\ InitResponseIdle
    /\ InitTeamIdle
    /\ InitErrorsIdle
    /\ InitResetIdle
    /\ InitContextIdle
    /\ InitCodexIdle
    /\ InitChainsIdle

NextFs == NextQueue \/ FsFlush

SpecFs == InitFs /\ [][NextFs]_vars

\* The permit of invoke.ts on its own, the queue at rest.
InitQueueIdle ==
    /\ agents = <<"default", "coder">>
    /\ cfgMaxAttempts = 0
    /\ incoming = [f \in Names |-> NoFile]
    /\ processing = [f \in Names |-> NoFile]
    /\ mtimeOrder = <<>>
    /\ outgoing = <<>>
    /\ deadLetter = <<>>
    /\ created = 0
    /\ up = TRUE
    /\ restarts = 0
    /\ queuedFiles = {}
    /\ chains = [k \in ChainKeys |-> <<>>]
    /\ pm = [f \in Names |-> "idle"]
    /\ invocations = [f \in Names |-> 0]
    /\ lastOutcome = [f \in Names |-> "none"]
    /\ granular = FALSE
    /\ wq = <<>>

InitP ==
    /\ InitQueueIdle
    /\ InitPermit
    /\ InitSandboxIdle
    /\ InitResponseIdle
    /\ InitTeamIdle
    /\ InitErrorsIdle
    /\ InitResetIdle
    /\ InitContextIdle
    /\ InitCodexIdle
    /\ InitChainsIdle

SpecPermit == InitP /\ [][NextPermit]_vars

\* The permit with every invocation that holds a permit settling and every
\* woken waiter's continuation being run.
LivePermit ==
    /\ InitP /\ [][NextPermit]_vars
    /\ \A i \in Invocations : WF_vars(Resume(i)) /\ WF_vars(Release(i))

\* One runInSandbox call on its own.
InitS ==
    /\ InitQueueIdle
    /\ InitPermitIdle
    /\ InitSandbox
    /\ InitResponseIdle
    /\ InitTeamIdle
    /\ InitErrorsIdle
    /\ InitResetIdle
    /\ InitContextIdle
    /\ InitCodexIdle
    /\ InitChainsIdle

SpecSandbox == InitS /\ [][NextSandbox]_vars

\* processMessage from the aggregated response to the file in outgoing.
InitR ==
    /\ InitQueueIdle
    /\ InitPermitIdle
    /\ InitSandboxIdle
    /\ InitResponse
    /\ InitTeamIdle
    /\ InitErrorsIdle
    /\ InitResetIdle
    /\ InitContextIdle
    /\ InitCodexIdle
    /\ InitChainsIdle

SpecResponse == InitR /\ [][NextResponse]_vars

\* processMessage of one message for a team, with its retries.
InitT ==
    /\ InitQueueIdle
    /\ InitPermitIdle
    /\ InitSandboxIdle
    /\ InitResponseIdle
    /\ InitTeam
    /\ InitErrorsIdle
    /\ InitResetIdle
    /\ InitContextIdle
    /\ InitCodexIdle
    /\ InitChainsIdle

SpecTeam == InitT /\ [][NextTeam]_vars

\* One failing invocation of a message, in two runs that differ in the API key.
InitE ==
    /\ InitQueueIdle
    /\ InitPermitIdle
    /\ InitSandboxIdle
    /\ InitResponseIdle
    /\ InitTeamIdle
    /\ InitErrors
    /\ InitResetIdle
    /\ InitContextIdle
    /\ InitCodexIdle
    /\ InitChainsIdle

SpecErrors == InitE /\ [][NextErrors]_vars

\* The reset flags over the invocations of one message.
InitF ==
    /\ InitQueueIdle
    /\ InitPermitIdle
    /\ InitSandboxIdle
    /\ InitResponseIdle
    /\ InitTeamIdle
    /\ InitErrorsIdle
    /\ InitReset
    /\ InitContextIdle
    /\ InitCodexIdle
    /\ InitChainsIdle

SpecReset == InitF /\ [][NextReset]_vars

\* processMessage from the routing to the team context of the chain.
InitC ==
    /\ InitQueueIdle
    /\ InitPermitIdle
    /\ InitSandboxIdle
    /\ InitResponseIdle
    /\ InitTeamIdle
    /\ InitErrorsIdle
    /\ InitResetIdle
    /\ InitContext
    /\ InitCodexIdle
    /\ InitChainsIdle

SpecContext == InitC /\ [][NextContext]_vars

\* parseCodexResponse on the outputs of the codex CLI.
InitX ==
    /\ InitQueueIdle
    /\ InitPermitIdle
    /\ InitSandboxIdle
    /\ InitResponseIdle
    /\ InitTeamIdle
    /\ InitErrorsIdle
    /\ InitResetIdle
    /\ InitContextIdle
    /\ InitCodex
    /\ InitChainsIdle

SpecCodex == InitX /\ [][NextCodex]_vars

\* The team chains of the queued messages, run by the per-agent promise chains.
InitM ==
    /\ InitQueueIdle
    /\ InitPermitIdle
    /\ InitSandboxIdle
    /\ InitResponseIdle
    /\ InitTeamIdle
    /\ InitErrorsIdle
    /\ InitResetIdle
    /\ InitContextIdle
    /\ InitCodexIdle
    /\ InitChains

SpecChains == InitM /\ [][NextChains]_vars

\* The same with the promise callbacks being run and every invocation
\* settling, with a response or an error.
LiveChains ==
    /\ InitM /\ [][NextChains]_vars
    /\ \A m \in Queued :
          /\ WF_vars(StartChain(m))
          /\ WF_vars(ChainStepReturns(m) \/ ChainStepThrows(m))
          /\ \A a \in Range(TeamAgents) : WF_vars(ChainSiblingReturns(m, a))

\* ------------------------------------------------------------------ claims

MaxAttempts == getSandboxConfig(cfgMaxAttempts)

\* The places a file takes in the agent chains.
Occurrences(f) ==
    {<<k, i>> \in ChainKeys \X (1..(2 * MaxMsgs)) :
        i <= Len(chains[k]) /\ chains[k][i] = f}

\* processMessage(f) has started and has not finished.
InFlight(f) == pm[f] \in {"invoking", "writing"}

\* C1: the start-up sweep moves every file of processing back to incoming, with
\* its content, before the first poll tick: when the process comes up,
\* processing is empty and each file that was in it is in incoming.
RecoverySweep ==
    [][(~up /\ up') =>
         \A f \in Names :
            /\ processing'[f] = NoFile
            /\ processing[f] # NoFile => incoming'[f] = processing[f]]_vars

\* C1 witness: after a restart a message that had been invoked, and had never
\* been requeued by a retry, is back in incoming.
RecoverySweepWitness ==
    /\ up /\ restarts > 0
    /\ \E f \in Names :
         /\ incoming[f] # NoFile
         /\ invocations[f] > 0
         /\ incoming[f].attempt = 0

\* C2: two messages that processMessage routes to the same agent are never in
\* flight at the same time.
SameAgentSequential ==
    \A f, g \in Names :
        (f # g /\ InFlight(f) /\ InFlight(g))
            => RouteAgent(processing[f], agents) # RouteAgent(processing[g], agents)

\* C3: a file is in at most one place of the agent chains, it is there exactly
\* while it is in queuedFiles, and every file in processing belongs to exactly
\* one processMessage that is in flight.
NoDoubleEnqueue ==
    up => \A f \in Names :
            /\ Cardinality(Occurrences(f)) <= 1
            /\ f \in queuedFiles <=> Cardinality(Occurrences(f)) = 1
            /\ f \in queuedFiles <=> pm[f] # "idle"
            /\ processing[f] # NoFile =>
                  InFlight(f) /\ Cardinality(Occurrences(f)) = 1

\* C3 witness: a file waits in a chain behind a message that is in flight, and
\* is still in incoming, where the next poll tick finds it again.
NoDoubleEnqueueWitness ==
    \E f, g \in Names :
        /\ f # g
        /\ pm[f] = "queued" /\ incoming[f] # NoFile /\ f \in queuedFiles
        /\ pm[g] = "invoking" /\ processing[g] # NoFile
        /\ \E k \in ChainKeys : chains[k] = <<g, f>>

\* The attempt counter processMessage(f) found in the file when it started.
StoredAttempt(f) ==
    IF processing[f] # NoFile THEN processing[f].attempt
    ELSE IF incoming[f].parsed THEN incoming[f].attempt
    ELSE 0

\* processMessage(f) ends in this step, and with a failure that is not a
\* terminal sandbox error.
FailsTransiently(f) ==
    /\ up /\ up'
    /\ pm[f] \in {"queued", "invoking"} /\ pm'[f] = "idle"
    /\ ~(f \in DOMAIN outgoing' /\ outgoing'[f].text \in {"response", "easter"})
    /\ ~(f \in DOMAIN deadLetter' /\ deadLetter'[f].errorClass = "terminal")

Requeued(f) ==
    /\ incoming'[f] # NoFile
    /\ incoming'[f].attempt = StoredAttempt(f) + 1
    /\ processing'[f] = NoFile
    /\ deadLetter' = deadLetter
    /\ outgoing' = outgoing

\* C4: whenever processing a message fails with an exception that is not a
\* terminal sandbox error and attempt + 1 < max_attempts, the message goes back
\* to incoming with attempt + 1 and nothing is written to dead-letter or
\* outgoing.
RetryRule ==
    [][\A f \in Names :
          (FailsTransiently(f) /\ StoredAttempt(f) + 1 < MaxAttempts)
              => Requeued(f)]_vars

\* The retry rule for the failures of an invocation, that is after the message
\* file has been claimed and parsed.
RetryRuleAfterParse ==
    [][\A f \in Names :
          (FailsTransiently(f) /\ pm[f] = "invoking"
             /\ StoredAttempt(f) + 1 < MaxAttempts)
              => Requeued(f)]_vars

RetryExhaustion ==
    restarts = 0 =>
        \A f \in Names :
            /\ invocations[f] <= MaxAttempts
            /\ (lastOutcome[f] = "transient" /\ pm[f] = "idle"
                  /\ invocations[f] = MaxAttempts)
                 => /\ f \in DOMAIN deadLetter
                    /\ deadLetter[f].errorClass = "transient"
                    /\ deadLetter[f].attempt = MaxAttempts
                    /\ incoming[f] = NoFile /\ processing[f] = NoFile
            /\ (f \in DOMAIN deadLetter /\ deadLetter[f].errorClass = "transient"
                  /\ invocations[f] > 0)
                 => invocations[f] = MaxAttempts

\* C6 witness: under the default max_attempts a message was invoked three
\* times and is dead-lettered as transient.
RetryExhaustionWitness ==
    /\ restarts = 0
    /\ cfgMaxAttempts = 0
    /\ \E f \in Names :
         /\ invocations[f] = DefaultMaxAttempts
         /\ f \in DOMAIN deadLetter
         /\ deadLetter[f].errorClass = "transient"

\* C7: every message file in incoming has attempt < max_attempts.
IncomingBelowMaxAttempts ==
    \A f \in Names :
        incoming[f] # NoFile => incoming[f].attempt < MaxAttempts

\* C7 witness: a requeued message with one attempt left.
IncomingBelowMaxAttemptsWitness ==
    \E f \in Names :
        /\ incoming[f] # NoFile
        /\ incoming[f].attempt = MaxAttempts - 1
        /\ lastOutcome[f] = "transient"

\* C8: every dead-letter record has errorClass terminal or transient and
\* attempt >= 1, and a dead-letter file, once written, stays and keeps its
\* content.
DeadLetterDiscipline ==
    /\ [](\A k \in DOMAIN deadLetter :
             /\ deadLetter[k].errorClass \in {"terminal", "transient"}
             /\ deadLetter[k].attempt >= 1)
    /\ [][\A k \in DOMAIN deadLetter :
             k \in DOMAIN deadLetter' /\ deadLetter'[k] = deadLetter[k]]_vars

\* C8 witness: a dead-letter record of the first attempt is still there when a
\* second message has been dead-lettered, and after a restart.
DeadLetterDisciplineWitness ==
    /\ Cardinality(DOMAIN deadLetter) = 2
    /\ \E k \in DOMAIN deadLetter : deadLetter[k].attempt = 1
    /\ restarts > 0 /\ up

\* C9: with max_concurrency = N > 0 at most N container invocations run inside
\* withSandboxPermit.
PermitBound ==
    limit > 0 =>
        Cardinality({i \in Invocations :
                        ipc[i] = "running" /\ imode[i] # "host"}) <= limit

\* C21: the container invocations get the permit in the order in which they
\* asked for it: when one starts to run, every invocation that is still waiting
\* for the permit asked for it later.
PermitFifo ==
    [][\A i, j \in Invocations :
          (/\ ipc[i] # "running" /\ ipc'[i] = "running"
           /\ PermitLimit(imode'[i], limit) > 0
           /\ j # i /\ ipc[j] \in {"waiting", "woken"})
          => \E a, b \in 1..Len(requested') :
                a < b /\ requested'[a] = i /\ requested'[b] = j]_vars

\* C10: no file of outgoing or dead-letter is seen under its final name while
\* its data is not yet written.
AtomicWrites ==
    /\ \A k \in DOMAIN outgoing : ~outgoing[k].partial
    /\ \A k \in DOMAIN deadLetter : ~deadLetter[k].partial

\* The place of a file in a list of files.
Position(s, x) == CHOOSE i \in 1..Len(s) : s[i] = x

\* Message f waits in incoming for the agent that g is routed to, and its file
\* is older than that of g.
OlderWaiting(f, g) ==
    /\ f # g
    /\ incoming[f] # NoFile /\ incoming[f].parsed
    /\ RouteAgent(incoming[f], agents) = RouteAgent(incoming[g], agents)
    /\ Position(mtimeOrder, f) < Position(mtimeOrder, g)

\* C11: when a message is invoked, no message routed to the same agent whose
\* incoming file has a smaller mtime is still waiting for its invocation: per
\* agent, messages are invoked in the mtime order of their incoming files.
PerAgentOrdering ==
    [][\A g \in Names :
          (pm[g] = "queued" /\ pm'[g] = "invoking")
              => \A f \in Names : ~OlderWaiting(f, g)]_vars

\* The ordering where peekAgentId and processMessage agree on the agent, that
\* is when settings.agents has an agent "default".
PerAgentOrderingWithDefaultAgent ==
    [][\A g \in Names :
          ("default" \in Range(agents) /\ pm[g] = "queued" /\ pm'[g] = "invoking")
              => \A f \in Names : ~OlderWaiting(f, g)]_vars

\* The message is not pre-routed and its leading prefix names several targets.
IsMultiMention(msg, ags) ==
    /\ msg # NoFile /\ msg.parsed
    /\ ~(msg.agent # "" /\ msg.agent \in Range(ags))
    /\ parseAgentRouting(msg.mention, ags) = "error"

\* C16: processMessage of a message whose routing yields the sentinel "error"
\* invokes no agent, writes exactly one response, the easter-egg text, deletes
\* the processing file, and neither dead-letters nor requeues the message.
EasterEggPath ==
    [][\A f \in Names :
          (pm[f] = "queued" /\ pm'[f] # "queued" /\ up'
             /\ IsMultiMention(incoming[f], agents))
              => /\ pm'[f] = "idle"
                 /\ invocations' = invocations
                 /\ f \notin DOMAIN outgoing
                 /\ DOMAIN outgoing' = DOMAIN outgoing \cup {f}
                 /\ outgoing'[f].text = "easter"
                 /\ \A k \in DOMAIN outgoing : outgoing'[k] = outgoing[k]
                 /\ deadLetter' = deadLetter
                 /\ incoming'[f] = NoFile
                 /\ processing'[f] = NoFile]_vars

\* C16 witness: the easter-egg answer of a message that was never invoked is
\* in outgoing while another message has been invoked.
EasterEggPathWitness ==
    \E f, g \in Names :
        /\ f \in DOMAIN outgoing /\ outgoing[f].text = "easter"
        /\ invocations[f] = 0 /\ pm[f] = "idle"
        /\ f \notin DOMAIN deadLetter
        /\ invocations[g] > 0

\* The effective mode of the request is docker or apple.
Containerised ==
    \/ sreq.agentMode \in {"docker", "apple"}
    \/ sreq.agentMode = "" /\ sreq.configuredMode \in {"docker", "apple"}

\* C20: when the effective sandbox mode is docker or apple, the provider CLI is
\* never spawned on the host; a failed pre-flight check (network none, API key
\* not allowlisted or not set) fails the request as terminal before anything
\* is spawned, a missing runtime and a terminal runtime error fail it as
\* terminal, and a result only ever comes from the container runtime.
FailClosed ==
    Containerised =>
        /\ sexec # "host"
        /\ (spc = "done" /\ PreflightFails(sreq))
              => (sresult = "terminal" /\ sexec = "none")
        /\ (spc = "done" /\ ~sreq.runtime) => sresult = "terminal"
        /\ (/\ spc = "done" /\ sexit = "nonzero"
            /\ classifyContainerFailure(sstderr) = "terminal")
              => sresult = "terminal"
        /\ spc = "done" => sresult # "none"
        /\ sresult = "ok" => (sexec = "runtime" /\ sexit = "exit0")

\* C20 witness: an agent overrides the global host mode with docker, the
\* docker binary is missing, and the request has failed as terminal.
FailClosedWitness ==
    /\ sreq.agentMode = "docker" /\ sreq.configuredMode = "host"
    /\ ~sreq.runtime
    /\ spc = "done" /\ sexit = "enoent"
    /\ sresult = "terminal" /\ sexec = "runtime"

\* C15: every message written to outgoing has a length of at most 4000, and
\* every such message longer than 3900 characters ends with the line
\* '[Response truncated...]'.
LengthCap ==
    rpc = "written" =>
        /\ finalResponse.length <= MaxResponseLength
        /\ finalResponse.length > TruncateTo => finalResponse.marker

\* C15 as the code has it: every message written to outgoing has a length of
\* at most 4000; a text of more than 4000 characters is cut to its first 3900
\* and ends with the line '[Response truncated...]' (3925 characters in all);
\* a text of up to 4000 characters, also one of more than 3900, is written as
\* it is and without that line.
LengthCapAt4000 ==
    rpc = "written" =>
        LET uncut == WithWarning(parsedFiles)
        IN  /\ finalResponse.length <= MaxResponseLength
            /\ finalResponse.marker <=> uncut.length > MaxResponseLength
            /\ finalResponse.marker
                 => finalResponse.length = TruncateTo + MarkerLength
            /\ ~finalResponse.marker => finalResponse = uncut

\* C15 witness: a text of 3990 characters that the warning about a missing
\* file brings over 4000 has been cut and marked.
LengthCapAt4000Witness ==
    /\ rpc = "written"
    /\ rin.textLength = 3990
    /\ finalResponse.marker
    /\ finalResponse.length = 3925

\* The tags of the response whose path resolves to no existing host file.
MissingTags ==
    SelectSeq(rin.tags,
              LAMBDA q : resolveSandboxPath(q, rmap, hostFiles) = NoPath)

\* The written message names every one of the first three missing paths in
\* its warning, none of them is in files, and the text holds no tag.
MissingNamed ==
    LET n == IF Len(MissingTags) < 3 THEN Len(MissingTags) ELSE 3
    IN  /\ parsedFiles.cleanLength = rin.textLength
        /\ \A i \in 1..Len(MissingTags) :
              MissingTags[i] \notin Range(parsedFiles.files)
        /\ \A i \in 1..n :
              /\ finalResponse.header
              /\ i <= Len(finalResponse.warned)
              /\ finalResponse.warned[i] = MissingTags[i]

\* C17: every tag whose path cannot be resolved is stripped from the text, is
\* absent from files, and (the first three) is named in the trailing warning
\* of the message written to outgoing, whatever the length of the response.
MissingFilesWarned == rpc = "written" => MissingNamed

\* The same for the messages that the length cap leaves as they are.
MissingFilesWarnedUncut ==
    (rpc = "written" /\ ~finalResponse.marker) => MissingNamed

\* A container path and the host path it stands for under a mapping: the path
\* is the container prefix, or continues it after a path separator.
RewrittenBy(mapping, tag, file) ==
    LET withSep(q) == IF q # <<>> /\ q[Len(q)] = "/" THEN q ELSE q \o <<"/">>
    IN  \/ tag = mapping.containerPrefix /\ file = mapping.hostPrefix
        \/ \E k \in 1..Len(tag) :
              /\ SubSeq(tag, 1, k) = withSep(mapping.containerPrefix)
              /\ k < Len(tag)
              /\ file = withSep(mapping.hostPrefix) \o SubSeq(tag, k + 1, Len(tag))

\* C18: files holds only absolute paths that exist on the host, each once, and
\* each is the path of a tag as it stands or that path rewritten by a mapping
\* whose container prefix equals it or precedes it up to a path separator.
FilesDiscipline ==
    rpc \in {"parsed", "warned", "written"} =>
        LET files == parsedFiles.files
        IN  \A i \in 1..Len(files) :
               /\ IsAbsolute(files[i])
               /\ files[i] \in hostFiles
               /\ \A j \in 1..Len(files) : files[j] = files[i] => j = i
               /\ \E q \in Range(rin.tags) :
                     /\ IsAbsolute(q)
                     /\ \/ q = files[i]
                        \/ \E m \in Range(rmap) : RewrittenBy(m, q, files[i])

\* C18 witness: /w/x and /h/x are attached as the one host file /h/x, while
\* /w2/x is missing although /h/2/x exists on the host.
FilesDisciplineWitness ==
    /\ rpc = "written"
    /\ <<"/", "w", "/", "x">> \in Range(rin.tags)
    /\ <<"/", "h", "/", "x">> \in Range(rin.tags)
    /\ parsedFiles.files = << <<"/", "h", "/", "x">> >>
    /\ <<"/", "h", "/", "2", "/", "x">> \in hostFiles
    /\ <<"/", "w", "2", "/", "x">> \in Range(parsedFiles.missing)

\* The teammates a response mentions: the members of the team other than the
\* agent that gave it.
Teammates(response, selfId) ==
    SelectSeq(response.mentions,
              LAMBDA m : m.teammateId \in {"lead", "coder", "writer"}
                         /\ m.teammateId # selfId)

\* A chain step returns in this step of the model.
StepDone == tpc = "step" /\ Len(chainSteps') = Len(chainSteps) + 1

\* The response of the chain step that returns.
StepResponse == chainSteps'[Len(chainSteps')].response

\* C12: when a chain step returns, every invocation made before has returned;
\* if its response mentions exactly one teammate, that teammate is invoked
\* next, with '[Message from teammate @<prev>]:\n<mention text>'; if it
\* mentions none, nobody is invoked any more and the chain ends.
ChainStepsOrdered ==
    [][StepDone =>
         LET to == Teammates(StepResponse, currentAgentId)
         IN  /\ Len(chainSteps') = Len(calls)
             /\ Len(to) = 1 =>
                  /\ calls' = Append(calls,
                        [agentId |-> to[1].teammateId,
                         message |-> "[Message from teammate @" \o currentAgentId
                                        \o "]:\n" \o to[1].message])
                  /\ tpc' = "step"
             /\ Len(to) = 0 => (calls' = calls /\ tpc' = "done")]_vars

\* C12 witness: a chain of three steps has ended, the second of them invoked
\* with the message the first one handed over.
ChainStepsOrderedWitness ==
    /\ tpc = "done"
    /\ Len(chainSteps) = 3 /\ Len(calls) = 3
    /\ fan = <<>>
    /\ calls[2] = [agentId |-> "coder",
                   message |-> "[Message from teammate @lead]:\nimplement X"]

\* C13: a response that mentions several teammates starts one invocation per
\* mentioned teammate, all at once; from then on no agent is invoked for the
\* message, and when the last sibling has returned the chain has ended with
\* one step per sibling, whatever the siblings' responses mention.
FanOutOneRound ==
    [][/\ (StepDone /\ Len(Teammates(StepResponse, currentAgentId)) > 1) =>
            LET to == Teammates(StepResponse, currentAgentId)
            IN  /\ Len(calls') = Len(calls) + Len(to)
                /\ \A i \in 1..Len(to) :
                      /\ calls'[Len(calls) + i].agentId = to[i].teammateId
                      /\ \A j \in 1..Len(to) :
                            to[j].teammateId = to[i].teammateId => j = i
                /\ tpc' = "fanout"
                /\ Running(fan') = 1..Len(to)
       /\ tpc = "fanout" =>
            /\ calls' = calls
            /\ started' = started
            /\ tpc' = "fanout" => Running(fan') # {}
            /\ tpc' = "done" => Len(chainSteps') = Len(chainSteps) + Len(fan)]_vars

\* C13 witness: a fan-out has ended, and a sibling's response mentions a
\* teammate that was not invoked again.
FanOutOneRoundWitness ==
    /\ tpc = "done"
    /\ Len(fan) = 2
    /\ Len(calls) = 3
    /\ \E i \in 1..Len(fan) : Teammates(fan[i].response, fan[i].agentId) # <<>>

\* The steps first..last rendered and joined.
RECURSIVE Joined(_, _)
Joined(first, last) ==
    LET one == "@" \o chainSteps[first].agentId \o ": "
                   \o chainSteps[first].response.text
    IN  IF first = last THEN one
        ELSE one \o "\n\n---\n\n" \o Joined(first + 1, last)

\* C14: the final response of a team run is the lone step's response, or the
\* steps rendered '@<id>: <response>' and joined by '\n\n---\n\n' in the
\* order of chainSteps; the results of a fan-out follow the step that started
\* it in the order of its mentions, in whatever order the siblings returned.
Aggregation ==
    tpc = "done" =>
        /\ Len(chainSteps) = 1 => tfinal = chainSteps[1].response.text
        /\ Len(chainSteps) > 1 => tfinal = Joined(1, Len(chainSteps))
        /\ fan # <<>> =>
             LET k == Len(chainSteps) - Len(fan)
                 to == Teammates(chainSteps[k].response, chainSteps[k].agentId)
             IN  /\ Len(to) = Len(fan)
                 /\ \A i \in 1..Len(fan) :
                       /\ chainSteps[k + i].agentId = to[i].teammateId
                       /\ chainSteps[k + i].response = script[to[i].teammateId]
        /\ (/\ tfirst = "lead"
            /\ script["lead"].text = "@coder implement X"
            /\ script["coder"].text = "done")
             => tfinal = "@lead: @coder implement X\n\n---\n\n@coder: done"

\* C14 witness: the second sibling of a fan-out returned first, and the run
\* has ended with three steps.
AggregationWitness ==
    /\ tpc = "done"
    /\ settledOrder = <<2, 1>>
    /\ Len(chainSteps) = 3
    /\ chainSteps[2].agentId = "coder" /\ chainSteps[3].agentId = "writer"

\* C19: a message that was retried once after a transient failure has caused
\* at most one more pair of sandbox_invocation_start and _end / _error events
\* than the run that succeeded.
RetryEventPairs ==
    (tpc = "done" /\ tattempt = 1 /\ failures = 1 /\ stray = 0) =>
        /\ settled = started
        /\ started <= Len(calls) + 1

\* The same for a message that a single invocation answers.
RetryEventPairsSingleStep ==
    (tpc = "done" /\ tattempt = 1 /\ failures = 1 /\ stray = 0
       /\ Len(calls) = 1) =>
        /\ settled = started
        /\ started <= Len(calls) + 1

\* The required key of the request's provider, as the claims name it.
ProviderKey ==
    IF sreq.provider = "openai" THEN "OPENAI_API_KEY" ELSE "ANTHROPIC_API_KEY"

\* The lowercased stderr holds one of the terminal signatures.
HasTerminalSignature ==
    \E sig \in TerminalSignatures :
        Includes([k \in 1..Len(sstderr) |-> ToLowerCase(sstderr[k])], sig)

\* C26: a timeout, a non-zero exit without a terminal signature in stderr and
\* a spawn error other than ENOENT end the invocation as transient, on the
\* host and in a container.
TransientRuntimeErrors ==
    (/\ spc = "done"
     /\ \/ sexit = "timeout"
        \/ sexit = "nonzero" /\ ~HasTerminalSignature
        \/ sexit = "spawn_error")
    => sresult = "transient"

\* C27: in docker or apple mode a request whose network is none, whose
\* provider key is not in env_allowlist or not set in the environment fails as
\* terminal with nothing spawned, and a missing runtime binary (ENOENT) fails
\* it as terminal.
PreflightTerminal ==
    (/\ EffectiveMode(sreq.agentMode, sreq.configuredMode) \in {"docker", "apple"}
     /\ spc = "done")
    => /\ (\/ sreq.network = "none"
           \/ ProviderKey \notin EnvAllowlist(sreq.envAllowlist)
           \/ ProviderKey \notin sreq.processEnv)
          => (sresult = "terminal" /\ sexec = "none" /\ sexit = "none")
       /\ sexit = "enoent" => sresult = "terminal"

\* C27 witness: an openai agent in docker mode with only the anthropic key
\* allowlisted has failed as terminal before anything was spawned.
PreflightTerminalWitness ==
    /\ EffectiveMode(sreq.agentMode, sreq.configuredMode) = "docker"
    /\ sreq.provider = "openai"
    /\ sreq.envAllowlist = {"ANTHROPIC_API_KEY"}
    /\ sreq.processEnv = ApiKeys /\ sreq.network = "default"
    /\ spc = "done" /\ sresult = "terminal" /\ sexec = "none"

\* C28: a container that exits with a code other than 0 fails as terminal if
\* the lowercased stderr holds one of the seven signatures and as transient
\* otherwise; a timeout is transient whatever stderr holds.
ContainerFailureClass ==
    (spc = "done" /\ sexec = "runtime")
    => /\ sexit = "nonzero"
          => (sresult = "terminal" <=> HasTerminalSignature)
       /\ sexit = "nonzero" => sresult \in {"terminal", "transient"}
       /\ sexit = "timeout" => sresult = "transient"

\* C28 witness: the runtime exited with a code other than 0 and 'image NOT
\* FOUND' on stderr, and the invocation has failed as terminal.
ContainerFailureClassWitness ==
    /\ spc = "done" /\ sexec = "runtime" /\ sexit = "nonzero"
    /\ sstderr = <<"image", "NOT", "FOUND">>
    /\ sresult = "terminal"

\* C30: a configured mode that is neither host nor docker nor apple fails the
\* invocation as terminal, and nothing is spawned.
UnknownModeTerminal ==
    (/\ EffectiveMode(sreq.agentMode, sreq.configuredMode) \notin SandboxModes
     /\ spc # "ready")
    => (sexec = "none" /\ spc = "done" /\ sresult = "terminal")

\* processMessage(f) fails while it claims or reads the file: the file is gone
\* from incoming, or it holds no valid JSON.
ClaimOrReadFails(f) ==
    /\ up /\ pm[f] = "queued" /\ pm'[f] # "queued"
    /\ (incoming[f] = NoFile \/ ~incoming[f].parsed)

\* C25: when the rename into processing or the read of the file fails, nothing
\* is written to dead-letter or outgoing, and a message file that was there is
\* still in the queue.
QueueIoErrorLeftForNextTick ==
    [][\A f \in Names :
          ClaimOrReadFails(f)
          => /\ deadLetter' = deadLetter
             /\ outgoing' = outgoing
             /\ incoming[f] # NoFile
                  => (incoming'[f] # NoFile \/ processing'[f] # NoFile)]_vars

\* A dead-letter record for f is written by this step.
DeadLettered(f) == f \in DOMAIN deadLetter' /\ f \notin DOMAIN deadLetter

\* The user-visible response for f is written by this step.
UserInformed(f) ==
    /\ f \in DOMAIN outgoing' /\ f \notin DOMAIN outgoing
    /\ outgoing'[f].msg = f /\ outgoing'[f].text = "userMessage"

\* C29: a step that writes a dead-letter record for a message also writes the
\* one user-visible response for it to outgoing and removes the processing file.
DeadLetterWithResponse ==
    [][\A f \in Names :
          DeadLettered(f) => (UserInformed(f) /\ processing'[f] = NoFile)]_vars

\* The same for the dead-letter records written after a failed invocation, a
\* terminal failure or the last transient one.
DeadLetterWithResponseAfterInvocation ==
    [][\A f \in Names :
          (DeadLettered(f) /\ pm[f] = "invoking")
          => (UserInformed(f) /\ processing'[f] = NoFile)]_vars

\* C24: the agent field of the response of a team chain is the id of the
\* agent that produced the last chain step.
AgentIsFinalHandler ==
    (tpc = "done" /\ chainSteps # <<>>)
    => ResponseAgent = chainSteps[Len(chainSteps)].agentId

\* C24, amended: the agent field of the response of a team chain is the id of
\* the agent the message was routed to, the agent of the first chain step,
\* whichever agent produced the last one.
AgentIsRoutedAgent ==
    (tpc = "done" /\ chainSteps # <<>>)
    => (ResponseAgent = tfirst /\ ResponseAgent = chainSteps[1].agentId)

\* C24 witness: a chain of two steps by two agents has ended, and the agent of
\* its response is the agent of the first step.
AgentIsRoutedAgentWitness ==
    /\ tpc = "done" /\ Len(chainSteps) = 2
    /\ chainSteps[2].agentId # chainSteps[1].agentId
    /\ ResponseAgent = chainSteps[1].agentId

\* An error text that shows the value of an API key.
Leaks(text) ==
    \E k \in 1..Len(text) :
        text[k].name \in ApiKeys /\ text[k].value \notin {"", "[REDACTED]"}

\* C22: no error text in the log, in an event, in a dead-letter record or in a
\* response shows the value that follows ANTHROPIC_API_KEY= or OPENAI_API_KEY=,
\* and two runs that differ in the key only log, dead-letter and answer the
\* same texts.
SecretHygiene ==
    /\ \A r \in Runs :
          \A t \in Range(eevents[r]) \cup Range(elog[r])
                   \cup Range(edead[r]) \cup Range(eresp[r]) : ~Leaks(t)
    /\ elog[1] = elog[2] /\ edead[1] = edead[2] /\ eresp[1] = eresp[2]

\* The same without the events.
SecretHygieneOfProcessor ==
    /\ \A r \in Runs :
          \A t \in Range(elog[r]) \cup Range(edead[r]) \cup Range(eresp[r]) :
              ~Leaks(t)
    /\ elog[1] = elog[2] /\ edead[1] = edead[2] /\ eresp[1] = eresp[2]

\* C23: the first invocation for a message resets iff the global flag or the
\* flag of its agent exists, and then both are gone; every later chain step and
\* fan-out sibling resets iff the flag of its own agent exists, which is then
\* gone, and leaves the global flag as it is.
ResetSemantics ==
    \A k \in 1..Len(finv) :
        LET r == finv[k]
        IN  IF r.first
            THEN /\ r.reset = ("global" \in r.before \/ r.agentId \in r.before)
                 /\ r.after = IF r.reset THEN r.before \ {"global", r.agentId}
                              ELSE r.before
            ELSE /\ r.reset = (r.agentId \in r.before)
                 /\ r.after = r.before \ {r.agentId}

\* C23 witness: the first invocation was reset by the global flag, and a later
\* step ran without reset while a global flag created meanwhile was there.
ResetSemanticsWitness ==
    /\ fpc = "done" /\ Len(finv) >= 2
    /\ finv[1].reset /\ "global" \in finv[1].before
    /\ finv[1].agentId \notin finv[1].before
    /\ \E k \in 2..Len(finv) :
          /\ ~finv[k].reset /\ "global" \in finv[k].before
          /\ "global" \in finv[k].after

\* C31: a message routed through the team alias @<teamId> runs its chain in
\* the context of that team: the team of the mention extraction, of the chain
\* events and of the chat history is the addressed team, also when its leader
\* leads or belongs to several teams.
TeamAliasContext ==
    (cpc = "context" /\ routing.isTeam) => teamContext = rawMessage.token
\* The addressed team is the context when its leader leads no other team.
TeamAliasContextOfSoleLeader ==
    (/\ cpc = "context" /\ routing.isTeam
     /\ \A i \in 1..Len(teams) :
           teams[i].leader_agent = routing.agentId => teams[i].id = rawMessage.token)
    => teamContext = rawMessage.token
\* The lines of the output that are a completed agent message.
AgentMessages ==
    {k \in 1..Len(codexOutput) :
        /\ codexOutput[k].parses /\ ~codexOutput[k].isNull
        /\ codexOutput[k].type = "item.completed"
        /\ codexOutput[k].item.type = "agent_message"}

LastAgentMessage ==
    codexOutput[CHOOSE k \in AgentMessages : \A j \in AgentMessages : j <= k].item.text

\* C32: for every NDJSON stdout the response is the text of the last line with
\* type item.completed and item.type agent_message, unparseable lines being
\* skipped; the fixed fallback is returned if and only if no line matches, and
\* no exception is raised.
CodexFallbackIffNoMatch ==
    xpc = "done" =>
        /\ ~codexResponse.threw
        /\ AgentMessages # {} => codexResponse.value = LastAgentMessage
        /\ codexResponse.value = CodexFallback <=> AgentMessages = {}

\* C32, amended: the response is the text of the last agent message if that
\* text is a non-empty string; the fallback is returned if and only if no line
\* matches or the text of the last matching line is empty or absent; no
\* exception is raised.
CodexLastMessageOrFallback ==
    xpc = "done" =>
        /\ ~codexResponse.threw
        /\ IF AgentMessages # {} /\ LastAgentMessage \notin {"", Undefined}
           THEN codexResponse.value = LastAgentMessage
           ELSE codexResponse.value = CodexFallback

CodexLastMessageOrFallbackWitness ==
    /\ xpc = "done"
    /\ Len(codexOutput) = 3
    /\ ~codexOutput[1].parses
    /\ codexOutput[2] = AgentMessage("A")
    /\ codexOutput[3] = AgentMessage("B")
    /\ codexResponse.value = "B"
\* The message has left the queue directories.
Gone(f) == incoming[f] = NoFile /\ processing[f] = NoFile

\* C33: no message is lost silently: in every reachable state each message
\* file a client has created is in incoming, in processing, or has a response
\* in outgoing or a dead-letter record; so a file leaves processing without
\* going back to incoming only with such a record written.
NoSilentLoss ==
    \A f \in 1..created :
        Gone(f) => f \in DOMAIN outgoing \/ f \in DOMAIN deadLetter

NoSilentLossWitness ==
    /\ created = 2
    /\ Gone(1) /\ Gone(2)
    /\ lastOutcome[1] = "ok" /\ 1 \in DOMAIN outgoing /\ 1 \notin DOMAIN deadLetter
    /\ lastOutcome[2] = "transient" /\ invocations[2] > 1
    /\ 2 \in DOMAIN deadLetter
\* The invocations that run fn() inside withSandboxPermit with a limit > 0.
Holders ==
    {i \in Invocations : ipc[i] = "running" /\ PermitLimit(imode[i], limit) > 0}

\* C36: no permit leaks: sandboxActive is never negative and equals the number
\* of invocations that are running inside withSandboxPermit with a positive
\* limit; the finally block gives the permit back however fn() settles, so
\* the counter is 0 whenever no container invocation is in flight.
NoPermitLeak ==
    /\ sandboxActive >= 0
    /\ sandboxActive = Cardinality(Holders)
    /\ Holders = {} => sandboxActive = 0

NoPermitLeakWitness ==
    /\ limit = 1
    /\ Len(requested) = MaxInvocations
    /\ \A i \in Invocations : ipc[i] = "done"
    /\ sandboxActive = 0
\* C37: every container invocation that waits for a permit eventually gets one
\* and runs, provided every invocation that holds a permit settles: no
\* wake-up is lost and no waiter starves.
PermitLiveness ==
    \A i \in Invocations : (ipc[i] = "waiting") ~> (ipc[i] = "running")

PermitLivenessWitness ==
    /\ limit = 1
    /\ \E i \in Invocations :
          /\ ipc[i] = "running"
          /\ Len(requested) >= 2 /\ requested[2] = i
          /\ ipc[requested[1]] = "done"
ProcessMessageFinished ==
    tpc \in {"done", "dead"} \/ (tpc = "start" /\ tattempt > 0)

\* C40: when processMessage has finished for a message, no invocation started
\* on behalf of the message is still running; in particular the message is
\* not requeued or dead-lettered while siblings of a failed fan-out sibling
\* are still in flight.
NoInvocationOutlivesProcessing ==
    ProcessMessageFinished => stray = 0

\* Nothing is left running when no invocation of the message has failed.
NoInvocationOutlivesSuccess ==
    (ProcessMessageFinished /\ failures = 0) => stray = 0
\* C39: a reset request is not lost by a failed attempt: when the invocation
\* for which a reset flag was consumed fails and the message is requeued, the
\* retried invocation of that agent runs with reset again (without '-c' and
\* without 'resume --last').
ResetSurvivesRetry ==
    \A k \in 1..Len(finv) : finv[k].agentId \in ffailed => finv[k].reset
\* C34: at most one invocation of an agent id is in flight at any time,
\* counting the first steps, the chain hand-offs and the fan-out siblings of
\* all messages that are processed at the same time on different chains.
OneInvocationPerAgent ==
    \A m, n \in Queued :
        m # n => InFlightAgents(m) \cap InFlightAgents(n) = {}

\* What the promise chains do ensure: two messages routed to the same agent
\* are not processed at the same time.
OneMessagePerChain ==
    \A m, n \in Queued :
        (m # n /\ mfirst[m] = mfirst[n]) =>
            ~(mpc[m] \in {"step", "fanout"} /\ mpc[n] \in {"step", "fanout"})

\* C38: provided every invocation settles, the processing of a claimed message
\* ends: the chain loop stops after finitely many steps whatever teammates
\* the agents mention.
ChainTerminates ==
    \A m \in Queued : (mpc[m] = "step") ~> (mpc[m] \in {"done", "failed"})
====
